---- MODULE Spec2Model ----
(***************************************************************************)
(* Submission lifecycle, balance ledger, audit log and access policy of    *)
(* victoryweb: the admin router (routes/admin), the submissions router     *)
(* (routes/submissions) and middleware/auth.js.                            *)
(*                                                                         *)
(* Every HTTP request is a process.  JavaScript runs the code between two  *)
(* awaits without interruption, so one action of the model is one database *)
(* call together with the synchronous code that follows it up to the next  *)
(* await.  Requests interleave at the awaits.  Every database call may     *)
(* throw; the handlers' catch blocks answer 500.                           *)
(*                                                                         *)
(* Amounts are whole numbers of the balance unit; the one fractional       *)
(* literal of the source, the minimum credit 0.01, is kept in hundredths.  *)
(***************************************************************************)
EXTENDS Integers, Sequences, FiniteSets, TLC

VARIABLES users, subs, blobs, payouts, adminLogs, reqs

vars == <<users, subs, blobs, payouts, adminLogs, reqs>>

(* Number of requests issued in one run. *)
MaxRequests == 2

Reqs == 1..MaxRequests

(* Optional values (null / undefined in the source). *)
None == {}

Some(v) == {v}

Has(o) == o # {}

Get(o) == CHOOSE x \in o : TRUE

(***************************************************************************)
(* Validation schemas (Joi).                                               *)
(***************************************************************************)
MaxBonus == 1000

(* 0.01, in hundredths. *)
MinCreditHundredths == 1

MaxCredit == 10000

MinReasonLen == 3

MaxReasonLen == 200

MaxBalanceEdit == 100000

(* Length of the strings used as request inputs. *)
StrLen(s) ==
  CASE s = "" -> 0
    [] s = "r" -> 1
    [] s = "ab" -> 2
    [] s = "spam" -> 4
    [] s = "bonus" -> 5
    [] OTHER -> 8

(* Joi.string() rejects the empty string; a missing key is not a string. *)
JoiString(o) == \A s \in o : StrLen(s) > 0

(* The schema without the "when REJECTED then required" clause. *)
reviewSubmissionSchema_ReasonOptional(b) ==
  /\ b.status \in {"APPROVED", "REJECTED"}
  /\ \A n \in b.bonusAmount : n >= 0 /\ n <= MaxBonus

reviewSubmissionSchema(b) ==
  /\ b.status \in {"APPROVED", "REJECTED"}
  /\ JoiString(b.rejectReason)
  /\ (b.status = "REJECTED" => Has(b.rejectReason))
  /\ \A n \in b.bonusAmount : n >= 0 /\ n <= MaxBonus

addBalanceSchema(b) ==
  /\ Has(b.amount)
  /\ \A n \in b.amount : 100 * n >= MinCreditHundredths /\ n <= MaxCredit
  /\ Has(b.reason)
  /\ \A s \in b.reason : StrLen(s) >= MinReasonLen /\ StrLen(s) <= MaxReasonLen

(* The schema without the lower limit of balance. *)
updateUserSchema_NoFloor(b) ==
  /\ \A x \in b.role : x \in {"USER", "MODERATOR", "ADMIN"}
  /\ \A x \in b.isBanned : x \in BOOLEAN
  /\ \A n \in b.balance : n <= MaxBalanceEdit

updateUserSchema(b) ==
  /\ \A x \in b.role : x \in {"USER", "MODERATOR", "ADMIN"}
  /\ \A x \in b.isBanned : x \in BOOLEAN
  /\ \A n \in b.balance : n >= 0 /\ n <= MaxBalanceEdit

(* The checks of the bulk-review handler on its body. *)
bulkReviewBodyError(b) ==
  \/ b.submissionIds = {}
  \/ b.status \notin {"APPROVED", "REJECTED"}
  \/ (b.status = "REJECTED" /\ (~Has(b.rejectReason) \/ b.rejectReason = Some("")))

(***************************************************************************)
(* middleware/auth.js                                                      *)
(***************************************************************************)
(* Every request of the model carries a session, so req.isAuthenticated()  *)
(* is true and req.user is the row deserializeUser read.                   *)
(* The ban is not looked at. *)
isAuthenticated_IgnoresBan(user) == TRUE

isAuthenticated(user) == ~user.isBanned

(* A gate that lets every role through. *)
isAdmin_AnyRole(user) == user.role \in {"ADMIN", "MODERATOR", "USER"}

isAdmin(user) == user.role = "ADMIN" \/ user.role = "MODERATOR"

(* The role is looked at before the ids are compared. *)
canModifyUser_RoleFirst(adminUser, targetUserId) ==
  IF adminUser.role = "MODERATOR" THEN TRUE
  ELSE IF adminUser.id = targetUserId THEN FALSE
  ELSE TRUE

canModifyUser(adminUser, targetUserId) ==
  IF adminUser.id = targetUserId THEN FALSE
  ELSE IF adminUser.role = "MODERATOR" THEN TRUE
  ELSE TRUE

(***************************************************************************)
(* Responses.  The tag names the branch of the handler that answered; the  *)
(* kind is the error of the specification's taxonomy it stands for.        *)
(***************************************************************************)
ErrorKind(tag) ==
  CASE tag = "ok" -> "ok"
    [] tag \in {"auth_required", "admin_required", "cannot_modify", "role_forbidden", "banned"} -> "Forbidden"
    [] tag = "validation" -> "ValidationError"
    [] tag = "not_found" -> "NotFound"
    [] tag = "already_reviewed" -> "InvalidStateError"
    [] OTHER -> "StorageError"

(***************************************************************************)
(* Requests.                                                               *)
(***************************************************************************)
NoUser == [id |-> "", role |-> "", isBanned |-> FALSE]

IdleReq ==
  [kind |-> "none", user |-> NoUser, id |-> "", body |-> <<>>, pc |-> "idle",
   result |-> "", found |-> None, pending |-> {}, failed |-> FALSE, count |-> 0,
   logError |-> FALSE, effects |-> {}]

(* Requests arrive in the order of their numbers. *)
CanStart(r) ==
  /\ reqs[r].pc = "idle"
  /\ \A q \in Reqs : q < r => reqs[q].pc # "idle"

(* The clock reads the number of requests that have arrived. *)
Now == Cardinality({q \in Reqs : reqs[q].pc # "idle"})

(* deserializeUser: req.user is the users row at the time the request arrives. *)
deserializeUser(uid) ==
  [id |-> uid, role |-> users[uid].role, isBanned |-> users[uid].isBanned]

NewReq(kind, uid, id, body) ==
  [IdleReq EXCEPT !.kind = kind, !.user = deserializeUser(uid), !.id = id, !.body = body]

Respond(q, tag) == [q EXCEPT !.pc = "done", !.result = tag]

Goto(q, label) == [q EXCEPT !.pc = label]

Did(q, what) == [q EXCEPT !.effects = @ \cup {what}]

(* An admin router that checks the role only. *)
AdminGate_RoleOnly(q, inner) ==
  IF ~isAdmin(q.user) THEN Respond(q, "admin_required") ELSE inner

(* router.use(isAuthenticated, isAdmin, rateLimiter.admin) of the admin router. *)
AdminGate(q, inner) ==
  IF ~isAuthenticated(q.user) THEN Respond(q, "auth_required")
  ELSE IF ~isAdmin(q.user) THEN Respond(q, "admin_required")
  ELSE inner

(* router.use(isAuthenticated) of the submissions router. *)
UserGate(q, inner) ==
  IF ~isAuthenticated(q.user) THEN Respond(q, "auth_required") ELSE inner

(* The catch block of a handler: a database call threw. *)
Throw(r) ==
  /\ reqs' = [reqs EXCEPT ![r] = Respond(@, "failed")]

(***************************************************************************)
(* logAdminAction: one adminLog.create whose failure is swallowed; every   *)
(* handler answers success right after it.                                 *)
(***************************************************************************)
ActionTag(kind) ==
  CASE kind = "review" -> "REVIEW_SUBMISSION"
    [] kind = "bulk" -> "BULK_REVIEW_SUBMISSIONS"
    [] kind = "update" -> "UPDATE_USER"
    [] OTHER -> "ADD_BALANCE"

(* An audit helper that records no count. *)
logAdminAction_NoCount(r) ==
  /\ reqs[r].pc = "log"
  /\ \/ /\ adminLogs' = Append(adminLogs,
             [adminId |-> reqs[r].user.id, action |-> ActionTag(reqs[r].kind),
              subject |-> reqs[r].id, count |-> 0, req |-> r])
        /\ reqs' = [reqs EXCEPT ![r] = Respond(Did(@, "log"), "ok")]
     \/ /\ adminLogs' = adminLogs
        /\ reqs' = [reqs EXCEPT ![r] = Respond([@ EXCEPT !.logError = TRUE], "ok")]
  /\ UNCHANGED <<users, subs, blobs, payouts>>

(* An audit helper that lets the failure of its insert reach the handler. *)
logAdminAction_Propagates(r) ==
  /\ reqs[r].pc = "log"
  /\ \/ /\ adminLogs' = Append(adminLogs,
             [adminId |-> reqs[r].user.id, action |-> ActionTag(reqs[r].kind),
              subject |-> reqs[r].id, count |-> reqs[r].count, req |-> r])
        /\ reqs' = [reqs EXCEPT ![r] = Respond(Did(@, "log"), "ok")]
     \/ /\ adminLogs' = adminLogs
        /\ reqs' = [reqs EXCEPT ![r] = Respond([@ EXCEPT !.logError = TRUE], "failed")]
  /\ UNCHANGED <<users, subs, blobs, payouts>>

logAdminAction(r) ==
  /\ reqs[r].pc = "log"
  /\ \/ /\ adminLogs' = Append(adminLogs,
             [adminId |-> reqs[r].user.id, action |-> ActionTag(reqs[r].kind),
              subject |-> reqs[r].id, count |-> reqs[r].count, req |-> r])
        /\ reqs' = [reqs EXCEPT ![r] = Respond(Did(@, "log"), "ok")]
     \/ /\ adminLogs' = adminLogs
        /\ reqs' = [reqs EXCEPT ![r] = Respond([@ EXCEPT !.logError = TRUE], "ok")]
  /\ UNCHANGED <<users, subs, blobs, payouts>>

(***************************************************************************)
(* PATCH /submissions/:id/review                                           *)
(***************************************************************************)
ReviewStart(r, uid, id, body) ==
  /\ CanStart(r)
  /\ LET q == NewReq("review", uid, id, body) IN
       reqs' = [reqs EXCEPT ![r] =
         AdminGate(q, IF ~reviewSubmissionSchema(body) THEN Respond(q, "validation")
                      ELSE Goto(q, "find"))]
  /\ UNCHANGED <<users, subs, blobs, payouts, adminLogs>>

ReviewFind(r) ==
  /\ reqs[r].kind = "review" /\ reqs[r].pc = "find"
  /\ \/ reqs' = [reqs EXCEPT ![r] =
           IF reqs[r].id \notin DOMAIN subs THEN Respond(@, "not_found")
           ELSE IF subs[reqs[r].id].status # "PENDING" THEN Respond(@, "already_reviewed")
           ELSE [Goto(@, "update") EXCEPT !.found = Some(subs[reqs[r].id].userId)]]
     \/ Throw(r)
  /\ UNCHANGED <<users, subs, blobs, payouts, adminLogs>>

(* An update that writes the status and the reason only. *)
ReviewedRow_NoReviewer(row, q) ==
  [row EXCEPT !.status = q.body.status,
              !.rejectReason = IF Has(q.body.rejectReason) THEN q.body.rejectReason ELSE None]

ReviewedRow(row, q) ==
  [row EXCEPT !.status = q.body.status,
              !.rejectReason = IF Has(q.body.rejectReason) THEN q.body.rejectReason ELSE None,
              !.reviewedBy = Some(q.user.id),
              !.reviewedAt = Some(Now)]

(* The bonus condition without the status test. *)
BonusDue_AnyStatus(q) == \E n \in q.body.bonusAmount : n > 0

(* if (value.status === 'APPROVED' && value.bonusAmount > 0) *)
BonusDue(q) ==
  q.body.status = "APPROVED" /\ \E n \in q.body.bonusAmount : n > 0

ReviewUpdate(r) ==
  /\ reqs[r].kind = "review" /\ reqs[r].pc = "update"
  /\ \/ /\ reqs[r].id \in DOMAIN subs
        /\ subs' = [subs EXCEPT ![reqs[r].id] = ReviewedRow(@, reqs[r])]
        /\ reqs' = [reqs EXCEPT ![r] =
             Goto(Did(@, "status"), IF BonusDue(reqs[r]) THEN "bonus" ELSE "log")]
     \/ /\ Throw(r)
        /\ subs' = subs
  /\ UNCHANGED <<users, blobs, payouts, adminLogs>>

ReviewBonus(r) ==
  /\ reqs[r].kind = "review" /\ reqs[r].pc = "bonus"
  /\ \/ /\ users' = [users EXCEPT ![Get(reqs[r].found)].balance =
                       @ + Get(reqs[r].body.bonusAmount)]
        /\ reqs' = [reqs EXCEPT ![r] = Goto(Did(@, "balance"), "payout")]
     \/ /\ Throw(r)
        /\ users' = users
  /\ UNCHANGED <<subs, blobs, payouts, adminLogs>>

(* A payout left at the default status of the column. *)
PayoutRow_Pending(userId, amount, adminId, r) ==
  [userId |-> userId, amount |-> amount, adminId |-> adminId, status |-> "PENDING",
   completedAt |-> None, req |-> r]

PayoutRow(userId, amount, adminId, r) ==
  [userId |-> userId, amount |-> amount, adminId |-> adminId, status |-> "COMPLETED",
   completedAt |-> Some(Now), req |-> r]

ReviewPayout(r) ==
  /\ reqs[r].kind = "review" /\ reqs[r].pc = "payout"
  /\ \/ /\ payouts' = Append(payouts,
             PayoutRow(Get(reqs[r].found), Get(reqs[r].body.bonusAmount), reqs[r].user.id, r))
        /\ reqs' = [reqs EXCEPT ![r] = Goto(Did(@, "payout"), "log")]
     \/ /\ Throw(r)
        /\ payouts' = payouts
  /\ UNCHANGED <<users, subs, blobs, adminLogs>>

(***************************************************************************)
(* PATCH /submissions/bulk-review                                          *)
(***************************************************************************)
BulkStart(r, uid, body) ==
  /\ CanStart(r)
  /\ LET q == NewReq("bulk", uid, "", body) IN
       reqs' = [reqs EXCEPT ![r] =
         AdminGate(q, IF bulkReviewBodyError(body) THEN Respond(q, "validation")
                      ELSE Goto(q, "updateMany"))]
  /\ UNCHANGED <<users, subs, blobs, payouts, adminLogs>>

(* The update is keyed by the ids alone. *)
BulkMatches_AnyStatus(ids) == {s \in DOMAIN subs : s \in ids}

(* where: { id: { in: submissionIds }, status: 'PENDING' } *)
BulkMatches(ids) == {s \in DOMAIN subs : s \in ids /\ subs[s].status = "PENDING"}

BulkRow(row, q) ==
  [row EXCEPT !.status = q.body.status,
              !.rejectReason = IF q.body.status = "REJECTED" THEN q.body.rejectReason ELSE None,
              !.reviewedBy = Some(q.user.id),
              !.reviewedAt = Some(Now)]

(* A bulk update that also pays body.bonusAmount to the owner of each row. *)
BulkUpdateMany_WithBonus(r) ==
  /\ reqs[r].kind = "bulk" /\ reqs[r].pc = "updateMany"
  /\ \/ LET hit == BulkMatches(reqs[r].body.submissionIds) IN
          /\ subs' = [s \in DOMAIN subs |->
                        IF s \in hit THEN BulkRow(subs[s], reqs[r]) ELSE subs[s]]
          /\ users' = [u \in DOMAIN users |->
                         IF Has(reqs[r].body.bonusAmount)
                         THEN [users[u] EXCEPT !.balance =
                                 @ + Get(reqs[r].body.bonusAmount)
                                       * Cardinality({s \in hit : subs[s].userId = u})]
                         ELSE users[u]]
          /\ reqs' = [reqs EXCEPT ![r] =
               [Goto(IF hit = {} THEN @ ELSE Did(@, "status"), "log")
                  EXCEPT !.count = Cardinality(hit)]]
     \/ /\ Throw(r)
        /\ subs' = subs
        /\ users' = users
  /\ UNCHANGED <<blobs, payouts, adminLogs>>

BulkUpdateMany(r) ==
  /\ reqs[r].kind = "bulk" /\ reqs[r].pc = "updateMany"
  /\ \/ LET hit == BulkMatches(reqs[r].body.submissionIds) IN
          /\ subs' = [s \in DOMAIN subs |->
                        IF s \in hit THEN BulkRow(subs[s], reqs[r]) ELSE subs[s]]
          /\ reqs' = [reqs EXCEPT ![r] =
               [Goto(IF hit = {} THEN @ ELSE Did(@, "status"), "log")
                  EXCEPT !.count = Cardinality(hit)]]
     \/ /\ Throw(r)
        /\ subs' = subs
  /\ UNCHANGED <<users, blobs, payouts, adminLogs>>

(***************************************************************************)
(* DELETE /:id of the submissions router                                   *)
(***************************************************************************)
DeleteStart(r, uid, id) ==
  /\ CanStart(r)
  /\ LET q == NewReq("delete", uid, id, <<>>) IN
       reqs' = [reqs EXCEPT ![r] = UserGate(q, Goto(q, "find"))]
  /\ UNCHANGED <<users, subs, blobs, payouts, adminLogs>>

(* The lookup without the userId condition. *)
DeleteFound_AnyOwner(q) ==
  /\ q.id \in DOMAIN subs
  /\ subs[q.id].status = "PENDING"

(* findFirst({ id, userId: req.user.id, status: 'PENDING' }) *)
DeleteFound(q) ==
  /\ q.id \in DOMAIN subs
  /\ subs[q.id].userId = q.user.id
  /\ subs[q.id].status = "PENDING"

(* fs.unlink is started before the row is deleted; its failure is only logged. *)
DeleteFind(r) ==
  /\ reqs[r].kind = "delete" /\ reqs[r].pc = "find"
  /\ \/ /\ ~DeleteFound(reqs[r])
        /\ reqs' = [reqs EXCEPT ![r] = Respond(@, "not_found")]
        /\ blobs' = blobs
     \/ /\ DeleteFound(reqs[r])
        /\ reqs' = [reqs EXCEPT ![r] = Goto(Did(@, "blob"), "delete")]
        /\ blobs' = blobs \ {reqs[r].id}
     \/ /\ DeleteFound(reqs[r])
        /\ reqs' = [reqs EXCEPT ![r] = Goto(@, "delete")]
        /\ blobs' = blobs
     \/ /\ Throw(r)
        /\ blobs' = blobs
  /\ UNCHANGED <<users, subs, payouts, adminLogs>>

DeleteRow(r) ==
  /\ reqs[r].kind = "delete" /\ reqs[r].pc = "delete"
  /\ \/ /\ reqs[r].id \in DOMAIN subs
        /\ subs' = [s \in DOMAIN subs \ {reqs[r].id} |-> subs[s]]
        /\ reqs' = [reqs EXCEPT ![r] = Respond(Did(@, "row"), "ok")]
     \/ /\ Throw(r)
        /\ subs' = subs
  /\ UNCHANGED <<users, blobs, payouts, adminLogs>>

(***************************************************************************)
(* PATCH /users/:id                                                        *)
(***************************************************************************)
UpdateStart(r, uid, id, body) ==
  /\ CanStart(r)
  /\ LET q == NewReq("update", uid, id, body) IN
       reqs' = [reqs EXCEPT ![r] =
         AdminGate(q, IF ~updateUserSchema(body) THEN Respond(q, "validation")
                      ELSE IF ~canModifyUser(q.user, id) THEN Respond(q, "cannot_modify")
                      ELSE Goto(q, "find"))]
  /\ UNCHANGED <<users, subs, blobs, payouts, adminLogs>>

(* The role check refuses the USER role only. *)
RoleChangeRefused_UserOnly(q) == Has(q.body.role) /\ q.user.role = "USER"

(* if (value.role && req.user.role !== 'ADMIN') *)
RoleChangeRefused(q) == Has(q.body.role) /\ q.user.role # "ADMIN"

(* A handler that writes the balance and ban fields of the patch before     *)
(* it checks who may change the role.                                       *)
UpdateFind_WriteFirst(r) ==
  /\ reqs[r].kind = "update" /\ reqs[r].pc = "find"
  /\ \/ /\ reqs' = [reqs EXCEPT ![r] =
              IF reqs[r].id \notin DOMAIN users THEN Respond(@, "not_found")
              ELSE IF RoleChangeRefused(reqs[r]) THEN Respond(@, "role_forbidden")
              ELSE Goto(@, "update")]
        /\ users' = IF reqs[r].id \notin DOMAIN users THEN users
                    ELSE [users EXCEPT
                            ![reqs[r].id].balance =
                               IF Has(reqs[r].body.balance) THEN Get(reqs[r].body.balance) ELSE @,
                            ![reqs[r].id].isBanned =
                               IF Has(reqs[r].body.isBanned) THEN Get(reqs[r].body.isBanned) ELSE @]
     \/ /\ Throw(r)
        /\ users' = users
  /\ UNCHANGED <<subs, blobs, payouts, adminLogs>>

UpdateFind(r) ==
  /\ reqs[r].kind = "update" /\ reqs[r].pc = "find"
  /\ \/ reqs' = [reqs EXCEPT ![r] =
           IF reqs[r].id \notin DOMAIN users THEN Respond(@, "not_found")
           ELSE IF RoleChangeRefused(reqs[r]) THEN Respond(@, "role_forbidden")
           ELSE Goto(@, "update")]
     \/ Throw(r)
  /\ UNCHANGED <<users, subs, blobs, payouts, adminLogs>>

(* A patch that adds body.balance to the stored balance. *)
PatchedUser_Increment(row, b) ==
  [row EXCEPT !.role = IF Has(b.role) THEN Get(b.role) ELSE @,
              !.balance = IF Has(b.balance) THEN @ + Get(b.balance) ELSE @,
              !.isBanned = IF Has(b.isBanned) THEN Get(b.isBanned) ELSE @]

(* prisma.user.update({ data: value }): the keys present in the body are written. *)
PatchedUser(row, b) ==
  [row EXCEPT !.role = IF Has(b.role) THEN Get(b.role) ELSE @,
              !.balance = IF Has(b.balance) THEN Get(b.balance) ELSE @,
              !.isBanned = IF Has(b.isBanned) THEN Get(b.isBanned) ELSE @]

UpdateWrite(r) ==
  /\ reqs[r].kind = "update" /\ reqs[r].pc = "update"
  /\ \/ /\ users' = [users EXCEPT ![reqs[r].id] = PatchedUser(@, reqs[r].body)]
        /\ reqs' = [reqs EXCEPT ![r] = Goto(Did(@, "user"), "log")]
     \/ /\ Throw(r)
        /\ users' = users
  /\ UNCHANGED <<subs, blobs, payouts, adminLogs>>

(***************************************************************************)
(* POST /users/:id/add-balance                                             *)
(***************************************************************************)
CreditStart(r, uid, id, body) ==
  /\ CanStart(r)
  /\ LET q == NewReq("credit", uid, id, body) IN
       reqs' = [reqs EXCEPT ![r] =
         AdminGate(q, IF ~addBalanceSchema(body) THEN Respond(q, "validation")
                      ELSE IF ~canModifyUser(q.user, id) THEN Respond(q, "cannot_modify")
                      ELSE Goto(q, "find"))]
  /\ UNCHANGED <<users, subs, blobs, payouts, adminLogs>>

CreditFind(r) ==
  /\ reqs[r].kind = "credit" /\ reqs[r].pc = "find"
  /\ \/ reqs' = [reqs EXCEPT ![r] =
           IF reqs[r].id \notin DOMAIN users THEN Respond(@, "not_found")
           ELSE [Goto(@, "writes") EXCEPT !.pending = {"balance", "payout"}]]
     \/ Throw(r)
  /\ UNCHANGED <<users, subs, blobs, payouts, adminLogs>>

(* Promise.all([user.update, payout.create]): both calls are issued and each *)
(* settles on its own, in either order.  Promise.all rejects at the first    *)
(* failure while the other call still runs to its end; the model answers     *)
(* when both calls have settled, which leaves the same rows.                 *)
Settled(q, what, ok) ==
  LET s == [q EXCEPT !.pending = @ \ {what}, !.failed = @ \/ ~ok,
                     !.effects = IF ok THEN @ \cup {what} ELSE @] IN
    IF s.pending # {} THEN s
    ELSE IF s.failed THEN Respond(s, "failed")
    ELSE Goto(s, "log")

(* The balance is set to the amount instead of being incremented by it. *)
CreditBalance_Overwrite(r) ==
  /\ reqs[r].kind = "credit" /\ reqs[r].pc = "writes" /\ "balance" \in reqs[r].pending
  /\ \/ /\ users' = [users EXCEPT ![reqs[r].id].balance = Get(reqs[r].body.amount)]
        /\ reqs' = [reqs EXCEPT ![r] = Settled(@, "balance", TRUE)]
     \/ /\ users' = users
        /\ reqs' = [reqs EXCEPT ![r] = Settled(@, "balance", FALSE)]
  /\ UNCHANGED <<subs, blobs, payouts, adminLogs>>

CreditBalance(r) ==
  /\ reqs[r].kind = "credit" /\ reqs[r].pc = "writes" /\ "balance" \in reqs[r].pending
  /\ \/ /\ users' = [users EXCEPT ![reqs[r].id].balance = @ + Get(reqs[r].body.amount)]
        /\ reqs' = [reqs EXCEPT ![r] = Settled(@, "balance", TRUE)]
     \/ /\ users' = users
        /\ reqs' = [reqs EXCEPT ![r] = Settled(@, "balance", FALSE)]
  /\ UNCHANGED <<subs, blobs, payouts, adminLogs>>

CreditPayout(r) ==
  /\ reqs[r].kind = "credit" /\ reqs[r].pc = "writes" /\ "payout" \in reqs[r].pending
  /\ \/ /\ payouts' = Append(payouts,
             PayoutRow(reqs[r].id, Get(reqs[r].body.amount), reqs[r].user.id, r))
        /\ reqs' = [reqs EXCEPT ![r] = Settled(@, "payout", TRUE)]
     \/ /\ payouts' = payouts
        /\ reqs' = [reqs EXCEPT ![r] = Settled(@, "payout", FALSE)]
  /\ UNCHANGED <<users, subs, blobs, adminLogs>>

(***************************************************************************)
(* The store at the start: an ADMIN, a MODERATOR and a USER who have logged *)
(* in, and two PENDING submissions, one of the USER and one of the ADMIN.   *)
(***************************************************************************)
NewUser(role) == [role |-> role, balance |-> 0, isBanned |-> FALSE]

NewSubmission(owner) ==
  [userId |-> owner, status |-> "PENDING", rejectReason |-> None,
   reviewedBy |-> None, reviewedAt |-> None]

Init ==
  /\ users = [u \in {"a", "m", "u"} |->
                NewUser(CASE u = "a" -> "ADMIN" [] u = "m" -> "MODERATOR" [] OTHER -> "USER")]
  /\ subs = [s \in {"s1", "s2"} |-> NewSubmission(IF s = "s1" THEN "u" ELSE "a")]
  /\ blobs = {"s1", "s2"}
  /\ payouts = <<>>
  /\ adminLogs = <<>>
  /\ reqs = [r \in Reqs |-> IdleReq]

(***************************************************************************)
(* Request inputs.                                                         *)
(***************************************************************************)
Principals == {"a", "m", "u"}

SubmissionIds == {"s1", "s2", "s0"}

TargetIds == {"a", "m", "u", "nobody"}

ReviewBody(status, reason, bonus) ==
  [status |-> status, rejectReason |-> reason, bonusAmount |-> bonus]

ReviewBodies ==
  {ReviewBody("APPROVED", None, None),
   ReviewBody("APPROVED", None, Some(200)),
   ReviewBody("REJECTED", Some("spam"), None),
   ReviewBody("REJECTED", None, None)}

BulkBody(ids, status, reason) ==
  [submissionIds |-> ids, status |-> status, rejectReason |-> reason]

BulkBodies ==
  {BulkBody({"s1", "s2"}, "APPROVED", None),
   BulkBody({"s1"}, "REJECTED", Some("spam")),
   BulkBody({"s1"}, "REJECTED", None)}

CreditBody(amount, reason) == [amount |-> amount, reason |-> reason]

CreditBodies ==
  {CreditBody(Some(50), Some("bonus")),
   CreditBody(Some(0), Some("bonus"))}

UpdateBody(role, banned, balance) ==
  [role |-> role, isBanned |-> banned, balance |-> balance]

UpdateBodies ==
  {UpdateBody(Some("ADMIN"), None, None),
   UpdateBody(None, Some(TRUE), None),
   UpdateBody(None, None, Some(700)),
   UpdateBody(Some("USER"), None, Some(-1))}

(***************************************************************************)
(* Next-state relations.                                                   *)
(***************************************************************************)
Arrive(r) ==
  \/ \E uid \in Principals, id \in SubmissionIds, b \in ReviewBodies : ReviewStart(r, uid, id, b)
  \/ \E uid \in Principals, b \in BulkBodies : BulkStart(r, uid, b)
  \/ \E uid \in Principals, id \in SubmissionIds : DeleteStart(r, uid, id)
  \/ \E uid \in Principals, id \in TargetIds, b \in UpdateBodies : UpdateStart(r, uid, id, b)
  \/ \E uid \in Principals, id \in TargetIds, b \in CreditBodies : CreditStart(r, uid, id, b)

Step(r) ==
  \/ ReviewFind(r)
  \/ ReviewUpdate(r)
  \/ ReviewBonus(r)
  \/ ReviewPayout(r)
  \/ BulkUpdateMany(r)
  \/ DeleteFind(r)
  \/ DeleteRow(r)
  \/ UpdateFind(r)
  \/ UpdateWrite(r)
  \/ CreditFind(r)
  \/ CreditBalance(r)
  \/ CreditPayout(r)
  \/ logAdminAction(r)

Next == \E r \in Reqs : Arrive(r) \/ Step(r)

Spec == Init /\ [][Next]_vars

(***************************************************************************)
(* Narrower runs of the same handlers, each over the requests one group of *)
(* properties is about, so that a third request stays within reach.        *)
(***************************************************************************)
(* The ledger: credits by the ADMIN and the MODERATOR, and a balance        *)
(* overwrite by the ADMIN.                                                  *)
NextCredit ==
  \E r \in Reqs :
    \/ \E uid \in {"a", "m"}, id \in {"u", "nobody"}, b \in CreditBodies :
         CreditStart(r, uid, id, b)
    \/ UpdateStart(r, "a", "u", UpdateBody(None, None, Some(700)))
    \/ CreditFind(r)
    \/ CreditBalance(r)
    \/ CreditPayout(r)
    \/ UpdateFind(r)
    \/ UpdateWrite(r)
    \/ logAdminAction(r)

SpecCredit == Init /\ [][NextCredit]_vars

(* Requests on the caller's own id, by every role, next to requests on the  *)
(* USER's id.                                                               *)
SelfOrUser == {<<"a", "a">>, <<"m", "m">>, <<"u", "u">>, <<"a", "u">>, <<"m", "u">>}

NextSelf ==
  \E r \in Reqs :
    \/ \E p \in SelfOrUser :
         \E b \in {UpdateBody(None, Some(TRUE), None), UpdateBody(None, None, Some(-1))} :
           UpdateStart(r, p[1], p[2], b)
    \/ \E p \in SelfOrUser, b \in CreditBodies : CreditStart(r, p[1], p[2], b)
    \/ CreditFind(r)
    \/ CreditBalance(r)
    \/ CreditPayout(r)
    \/ UpdateFind(r)
    \/ UpdateWrite(r)
    \/ logAdminAction(r)

SpecSelf == Init /\ [][NextSelf]_vars

(* User edits by every role on the MODERATOR, the USER and a missing id.    *)
RoleBodies ==
  {UpdateBody(Some("ADMIN"), None, None),
   UpdateBody(Some("USER"), None, None),
   UpdateBody(None, Some(TRUE), None),
   UpdateBody(Some("USER"), None, Some(-1))}

NextRoles ==
  \E r \in Reqs :
    \/ \E uid \in Principals, id \in {"m", "u", "nobody"}, b \in RoleBodies :
         UpdateStart(r, uid, id, b)
    \/ UpdateFind(r)
    \/ UpdateWrite(r)
    \/ logAdminAction(r)

SpecRoles == Init /\ [][NextRoles]_vars

(* Every operation as the USER, next to the same operations as the ADMIN.   *)
NextUser ==
  \E r \in Reqs :
    \/ \E uid \in {"a", "u"}, b \in {ReviewBody("APPROVED", None, Some(200))} :
         ReviewStart(r, uid, "s1", b)
    \/ \E uid \in {"a", "u"} : BulkStart(r, uid, BulkBody({"s1", "s2"}, "REJECTED", Some("spam")))
    \/ \E uid \in {"a", "u"} : DeleteStart(r, uid, "s1")
    \/ \E uid \in {"a", "u"}, id \in {"m", "u"} :
         UpdateStart(r, uid, id, UpdateBody(Some("USER"), Some(TRUE), Some(700)))
    \/ \E uid \in {"a", "u"}, id \in {"m", "u"} :
         CreditStart(r, uid, id, CreditBody(Some(50), Some("bonus")))
    \/ Step(r)

SpecUser == Init /\ [][NextUser]_vars

(* Reviews by the MODERATOR next to bulk reviews by the ADMIN, with and     *)
(* without a reject reason.                                                 *)
LifecycleReviewBodies ==
  {ReviewBody("APPROVED", Some("spam"), None),
   ReviewBody("REJECTED", Some("spam"), None),
   ReviewBody("REJECTED", None, None),
   ReviewBody("REJECTED", Some(""), None)}

LifecycleBulkBodies ==
  {BulkBody({"s1", "s2"}, "APPROVED", Some("spam")),
   BulkBody({"s1", "s2"}, "REJECTED", Some("spam")),
   BulkBody({"s1"}, "REJECTED", None),
   BulkBody({"s1"}, "REJECTED", Some(""))}

NextLifecycle ==
  \E r \in Reqs :
    \/ \E id \in {"s1", "s2"}, b \in LifecycleReviewBodies : ReviewStart(r, "m", id, b)
    \/ \E b \in LifecycleBulkBodies : BulkStart(r, "a", b)
    \/ ReviewFind(r)
    \/ ReviewUpdate(r)
    \/ BulkUpdateMany(r)
    \/ logAdminAction(r)

SpecLifecycle == Init /\ [][NextLifecycle]_vars

(* Deletes by the owner and by another user next to reviews of s1.          *)
NextDelete ==
  \E r \in Reqs :
    \/ \E uid \in {"u", "a"}, id \in SubmissionIds : DeleteStart(r, uid, id)
    \/ \E b \in {ReviewBody("APPROVED", None, None), ReviewBody("REJECTED", Some("spam"), None)} :
         ReviewStart(r, "m", "s1", b)
    \/ DeleteFind(r)
    \/ DeleteRow(r)
    \/ ReviewFind(r)
    \/ ReviewUpdate(r)
    \/ logAdminAction(r)

SpecDelete == Init /\ [][NextDelete]_vars

(* Every request that writes a balance, with amounts on both sides of 0.   *)
NextBalance ==
  \E r \in Reqs :
    \/ \E n \in {200, -5} : ReviewStart(r, "a", "s1", ReviewBody("APPROVED", None, Some(n)))
    \/ \E n \in {50, -5} : CreditStart(r, "a", "u", CreditBody(Some(n), Some("bonus")))
    \/ \E n \in {700, 0, -1} : UpdateStart(r, "a", "u", UpdateBody(None, None, Some(n)))
    \/ ReviewFind(r)
    \/ ReviewUpdate(r)
    \/ ReviewBonus(r)
    \/ ReviewPayout(r)
    \/ CreditFind(r)
    \/ CreditBalance(r)
    \/ CreditPayout(r)
    \/ UpdateFind(r)
    \/ UpdateWrite(r)
    \/ logAdminAction(r)

SpecBalance == Init /\ [][NextBalance]_vars

(***************************************************************************)
(* The verify callback of the 'epic' passport strategy (resolveIdentity).  *)
(* Account ids and names are sequences of characters; a user row of this   *)
(* part also carries epicId and nickname.                                  *)
(***************************************************************************)
IdShort == <<"a", "b", "c", "1", "2", "3">>

IdListed == <<"e", "p", "i", "c", "0", "0", "0", "0", "4", "2">>

IdOld == <<"o", "l", "d">>

(* process.env.ADMIN_EPIC_IDS after split(',') *)
AdminEpicIds == {IdListed, IdOld}

(* String.prototype.slice(start) with a start that may be negative. *)
Slice_FromStart(s, start) ==
  SubSeq(s, 1, IF Len(s) < -start THEN Len(s) ELSE -start)

Slice(s, start) ==
  LET from == IF start < 0
              THEN (IF Len(s) + start < 0 THEN 0 ELSE Len(s) + start)
              ELSE (IF start > Len(s) THEN Len(s) ELSE start)
  IN SubSeq(s, from + 1, Len(s))

(* epicUser.displayName || `User_${epicUser.accountId.slice(-8)}` *)
LoginNickname(epicUser) ==
  IF Has(epicUser.displayName) /\ Get(epicUser.displayName) # <<>>
  THEN Get(epicUser.displayName)
  ELSE <<"U", "s", "e", "r", "_">> \o Slice(epicUser.accountId, -8)

(* Every new account becomes a USER. *)
LoginRole_AlwaysUser(accountId) == "USER"

(* adminIds.includes(epicUser.accountId) ? 'ADMIN' : 'USER' *)
LoginRole(accountId) == IF accountId \in AdminEpicIds THEN "ADMIN" ELSE "USER"

(* The token response is taken as it comes. *)
MissingAccountId_Never(p) == FALSE

(* if (!accountId) *)
MissingAccountId(p) == ~Has(p.account_id)

(* if (!response.ok), if (!epicUser) *)
ProviderError(p) == ~p.ok \/ ~Has(p.accounts)

LoginPayload(tokenId, ok, accounts) ==
  [account_id |-> tokenId, ok |-> ok, accounts |-> accounts]

EpicUser(accountId, displayName) ==
  [accountId |-> accountId, displayName |-> displayName]

(* The id the database gives the row created by request r. *)
NewUserId(r) == r

LoginStart(r, p) ==
  /\ CanStart(r)
  /\ LET q == [IdleReq EXCEPT !.kind = "login", !.body = p] IN
       reqs' = [reqs EXCEPT ![r] =
         IF MissingAccountId(p) THEN Respond(q, "failed") ELSE Goto(q, "fetch")]
  /\ UNCHANGED <<users, subs, blobs, payouts, adminLogs>>

LoginFetch(r) ==
  /\ reqs[r].kind = "login" /\ reqs[r].pc = "fetch"
  /\ \/ reqs' = [reqs EXCEPT ![r] =
           IF ProviderError(reqs[r].body) THEN Respond(@, "failed") ELSE Goto(@, "find")]
     \/ Throw(r)
  /\ UNCHANGED <<users, subs, blobs, payouts, adminLogs>>

(* findUnique({ where: { epicId: epicUser.accountId } }) *)
LoginFind(r) ==
  /\ reqs[r].kind = "login" /\ reqs[r].pc = "find"
  /\ \/ LET hit == {u \in DOMAIN users : users[u].epicId = Get(reqs[r].body.accounts).accountId} IN
          reqs' = [reqs EXCEPT ![r] =
            Goto([@ EXCEPT !.found = hit], IF hit = {} THEN "create" ELSE "update")]
     \/ Throw(r)
  /\ UNCHANGED <<users, subs, blobs, payouts, adminLogs>>

(* user.create; the unique index on epic_id refuses a second row. *)
LoginCreate(r) ==
  /\ reqs[r].kind = "login" /\ reqs[r].pc = "create"
  /\ LET epicUser == Get(reqs[r].body.accounts) IN
       \/ /\ \A u \in DOMAIN users : users[u].epicId # epicUser.accountId
          /\ users' = [u \in DOMAIN users \cup {NewUserId(r)} |->
                         IF u \in DOMAIN users THEN users[u]
                         ELSE [epicId |-> epicUser.accountId,
                               nickname |-> LoginNickname(epicUser),
                               role |-> LoginRole(epicUser.accountId),
                               balance |-> 0, isBanned |-> FALSE]]
          /\ reqs' = [reqs EXCEPT ![r] =
                Respond(Did([@ EXCEPT !.found = Some(NewUserId(r))], "create"), "ok")]
       \/ /\ \E u \in DOMAIN users : users[u].epicId = epicUser.accountId
          /\ reqs' = [reqs EXCEPT ![r] = Respond(Did(@, "conflict"), "failed")]
          /\ users' = users
       \/ /\ Throw(r)
          /\ users' = users
  /\ UNCHANGED <<subs, blobs, payouts, adminLogs>>

(* An update that writes the placeholder when there is no display name. *)
LoginUpdate_Placeholder(r) ==
  /\ reqs[r].kind = "login" /\ reqs[r].pc = "update"
  /\ LET epicUser == Get(reqs[r].body.accounts) IN
       \/ /\ users' = [users EXCEPT ![Get(reqs[r].found)].nickname = LoginNickname(epicUser)]
          /\ reqs' = [reqs EXCEPT ![r] = Respond(Did(@, "update"), "ok")]
       \/ /\ Throw(r)
          /\ users' = users
  /\ UNCHANGED <<subs, blobs, payouts, adminLogs>>

(* An update that also sets the role from the allow-list, as the create    *)
(* branch does.                                                            *)
LoginUpdate_SetsRole(r) ==
  /\ reqs[r].kind = "login" /\ reqs[r].pc = "update"
  /\ LET epicUser == Get(reqs[r].body.accounts) IN
       \/ /\ users' = [users EXCEPT
                         ![Get(reqs[r].found)].nickname =
                            IF Has(epicUser.displayName) THEN Get(epicUser.displayName) ELSE @,
                         ![Get(reqs[r].found)].role = LoginRole(epicUser.accountId)]
          /\ reqs' = [reqs EXCEPT ![r] = Respond(Did(@, "update"), "ok")]
       \/ /\ Throw(r)
          /\ users' = users
  /\ UNCHANGED <<subs, blobs, payouts, adminLogs>>

(* user.update({ data: { nickname: epicUser.displayName } }): an undefined *)
(* displayName writes nothing.                                             *)
LoginUpdate(r) ==
  /\ reqs[r].kind = "login" /\ reqs[r].pc = "update"
  /\ LET epicUser == Get(reqs[r].body.accounts) IN
       \/ /\ users' = [users EXCEPT ![Get(reqs[r].found)].nickname =
                         IF Has(epicUser.displayName) THEN Get(epicUser.displayName) ELSE @]
          /\ reqs' = [reqs EXCEPT ![r] = Respond(Did(@, "update"), "ok")]
       \/ /\ Throw(r)
          /\ users' = users
  /\ UNCHANGED <<subs, blobs, payouts, adminLogs>>

(* One user exists: created before its id was put on the allow-list.       *)
InitIdentity ==
  /\ users = [u \in {0} |->
                [epicId |-> IdOld, nickname |-> <<"B", "o", "b">>, role |-> "USER",
                 balance |-> 50, isBanned |-> FALSE]]
  /\ subs = [s \in {} |-> NewSubmission("")]
  /\ blobs = {}
  /\ payouts = <<>>
  /\ adminLogs = <<>>
  /\ reqs = [r \in Reqs |-> IdleReq]

LoginPayloads ==
  {LoginPayload(Some(id), TRUE, Some(EpicUser(id, name))) :
     id \in {IdShort, IdListed, IdOld}, name \in {None, Some(<<"N", "e", "o">>)}}
  \cup
  {LoginPayload(Some(IdShort), TRUE, Some(EpicUser(IdShort, Some(<<>>)))),
   LoginPayload(None, TRUE, Some(EpicUser(IdShort, None))),
   LoginPayload(Some(IdShort), FALSE, None),
   LoginPayload(Some(IdShort), FALSE, Some(EpicUser(IdShort, None))),
   LoginPayload(Some(IdShort), TRUE, None)}

NextIdentity ==
  \E r \in Reqs :
    \/ \E p \in LoginPayloads : LoginStart(r, p)
    \/ LoginFetch(r)
    \/ LoginFind(r)
    \/ LoginCreate(r)
    \/ LoginUpdate(r)

SpecIdentity == InitIdentity /\ [][NextIdentity]_vars

(* Two users exist: a banned USER whose id is on the allow-list, and an    *)
(* ADMIN whose id is not.                                                  *)
InitRelogin ==
  /\ users = [u \in {0, 9} |->
                IF u = 0
                  THEN [epicId |-> IdOld, nickname |-> <<"B", "o", "b">>, role |-> "USER",
                        balance |-> 50, isBanned |-> TRUE]
                  ELSE [epicId |-> IdShort, nickname |-> <<"A", "n", "n">>, role |-> "ADMIN",
                        balance |-> 0, isBanned |-> FALSE]]
  /\ subs = [s \in {} |-> NewSubmission("")]
  /\ blobs = {}
  /\ payouts = <<>>
  /\ adminLogs = <<>>
  /\ reqs = [r \in Reqs |-> IdleReq]

SpecRelogin == InitRelogin /\ [][NextIdentity]_vars

(***************************************************************************)
(* POST / of the submissions router (Create).  Category and description    *)
(* are sequences of characters; a user row of this part also carries       *)
(* lastSubmission.                                                         *)
(***************************************************************************)
MinCategoryLen == 2

MaxCategoryLen == 50

MaxDescriptionLen == 500

Chars(n) == [i \in 1..n |-> "x"]

createSubmissionSchema(b) ==
  /\ Has(b.category)
  /\ \A c \in b.category : Len(c) >= MinCategoryLen /\ Len(c) <= MaxCategoryLen
  /\ \A d \in b.description : Len(d) > 0 /\ Len(d) <= MaxDescriptionLen

CreateBody(category, description, file) ==
  [category |-> category, description |-> description, file |-> file]

(* The name multer gives the upload of request r; the row created for it   *)
(* is keyed by the same name.                                              *)
uuidv4(r) == <<"c1", "c2", "c3", "c4">>[r]

(* upload.single('file') runs after router.use(isAuthenticated). *)
Staged(q) == isAuthenticated(q.user) /\ q.body.file

CreateStart(r, uid, body) ==
  /\ CanStart(r)
  /\ LET q == NewReq("create", uid, uuidv4(r), body)
         s == IF Staged(q) THEN Did(q, "blob") ELSE q
     IN /\ reqs' = [reqs EXCEPT ![r] =
              UserGate(q, IF q.user.isBanned THEN Respond(s, "banned")
                          ELSE IF ~createSubmissionSchema(body) THEN Respond(s, "validation")
                          ELSE IF ~body.file THEN Respond(s, "validation")
                          ELSE Goto(s, "create"))]
        /\ blobs' = IF Staged(q) THEN blobs \cup {q.id} ELSE blobs
  /\ UNCHANGED <<users, subs, payouts, adminLogs>>

(* The catch block: fs.unlink of the upload, whose failure is only logged. *)
CreateCatch(r) ==
  /\ Throw(r)
  /\ \/ blobs' = blobs \ {reqs[r].id}
     \/ blobs' = blobs

CreateRow(r) ==
  /\ reqs[r].kind = "create" /\ reqs[r].pc = "create"
  /\ \/ /\ subs' = [s \in DOMAIN subs \cup {reqs[r].id} |->
                        IF s = reqs[r].id THEN NewSubmission(reqs[r].user.id) ELSE subs[s]]
        /\ reqs' = [reqs EXCEPT ![r] = Goto(Did(@, "row"), "touch")]
        /\ blobs' = blobs
     \/ /\ CreateCatch(r)
        /\ subs' = subs
  /\ UNCHANGED <<users, payouts, adminLogs>>

(* user.update({ data: { lastSubmission: new Date() } }) *)
CreateTouch(r) ==
  /\ reqs[r].kind = "create" /\ reqs[r].pc = "touch"
  /\ \/ /\ users' = [users EXCEPT ![reqs[r].user.id].lastSubmission = Some(Now)]
        /\ reqs' = [reqs EXCEPT ![r] = Respond(Did(@, "touch"), "ok")]
        /\ blobs' = blobs
     \/ /\ CreateCatch(r)
        /\ users' = users
  /\ UNCHANGED <<subs, payouts, adminLogs>>

(* An admin, a user with one PENDING submission, and a banned user.        *)
InitCreate ==
  /\ users = [u \in {"a", "u", "b"} |->
                [role |-> IF u = "a" THEN "ADMIN" ELSE "USER", balance |-> 0,
                 isBanned |-> (u = "b"), lastSubmission |-> None]]
  /\ subs = [s \in {"s1"} |-> NewSubmission("u")]
  /\ blobs = {"s1"}
  /\ payouts = <<>>
  /\ adminLogs = <<>>
  /\ reqs = [r \in Reqs |-> IdleReq]

CreateBodies ==
  {CreateBody(Some(Chars(2)), None, TRUE),
   CreateBody(Some(Chars(50)), Some(Chars(500)), TRUE),
   CreateBody(Some(Chars(1)), None, TRUE),
   CreateBody(Some(Chars(51)), None, TRUE),
   CreateBody(Some(Chars(2)), Some(Chars(501)), TRUE),
   CreateBody(None, None, TRUE),
   CreateBody(Some(Chars(2)), None, FALSE)}

NextCreate ==
  \E r \in Reqs :
    \/ \E b \in CreateBodies : CreateStart(r, "u", b)
    \/ \E b \in {CreateBody(Some(Chars(2)), None, TRUE), CreateBody(Some(Chars(1)), None, TRUE)} :
         CreateStart(r, "b", b)
    \/ \E id \in {"s1", "c1"} : ReviewStart(r, "a", id, ReviewBody("APPROVED", None, None))
    \/ BulkStart(r, "a", BulkBody({"s1", "c1"}, "REJECTED", Some("spam")))
    \/ CreateRow(r)
    \/ CreateTouch(r)
    \/ ReviewFind(r)
    \/ ReviewUpdate(r)
    \/ BulkUpdateMany(r)
    \/ logAdminAction(r)

SpecCreate == InitCreate /\ [][NextCreate]_vars

(* Bulk reviews whose body carries a bonusAmount key, next to a review     *)
(* with a bonus.                                                           *)
BulkBodyWithBonus(ids, status, reason, bonus) ==
  [submissionIds |-> ids, status |-> status, rejectReason |-> reason, bonusAmount |-> bonus]

NextBulkBonus ==
  \E r \in Reqs :
    \/ \E b \in {BulkBodyWithBonus({"s1", "s2"}, "APPROVED", None, Some(200)),
                 BulkBodyWithBonus({"s1", "s2"}, "REJECTED", Some("spam"), Some(200)),
                 BulkBodyWithBonus({"s1"}, "APPROVED", None, None)} :
         BulkStart(r, "a", b)
    \/ ReviewStart(r, "m", "s1", ReviewBody("APPROVED", None, Some(200)))
    \/ BulkUpdateMany(r)
    \/ ReviewFind(r)
    \/ ReviewUpdate(r)
    \/ ReviewBonus(r)
    \/ ReviewPayout(r)
    \/ logAdminAction(r)

SpecBulkBonus == Init /\ [][NextBulkBonus]_vars

(* Reviews of s1 with bonus amounts around the limits, for both decisions. *)
BonusReviewBodies ==
  {ReviewBody("APPROVED", None, Some(1001)),
   ReviewBody("APPROVED", None, Some(-5)),
   ReviewBody("APPROVED", None, Some(1000)),
   ReviewBody("REJECTED", Some("spam"), Some(200)),
   ReviewBody("REJECTED", Some("spam"), Some(1001))}

NextBonus ==
  \E r \in Reqs :
    \/ \E id \in {"s1", "s2"}, b \in BonusReviewBodies : ReviewStart(r, "a", id, b)
    \/ ReviewFind(r)
    \/ ReviewUpdate(r)
    \/ ReviewBonus(r)
    \/ ReviewPayout(r)
    \/ logAdminAction(r)

SpecBonus == Init /\ [][NextBonus]_vars

(* The two handlers that create payouts, used by the MODERATOR with        *)
(* amounts of 0 and above, while the ADMIN takes the MODERATOR's role away. *)
NextPayout ==
  \E r \in Reqs :
    \/ \E n \in {200, 0} : ReviewStart(r, "m", "s1", ReviewBody("APPROVED", None, Some(n)))
    \/ \E n \in {50, 0} : CreditStart(r, "m", "u", CreditBody(Some(n), Some("bonus")))
    \/ CreditStart(r, "u", "u", CreditBody(Some(50), Some("bonus")))
    \/ UpdateStart(r, "a", "m", UpdateBody(Some("USER"), None, None))
    \/ ReviewFind(r)
    \/ ReviewUpdate(r)
    \/ ReviewBonus(r)
    \/ ReviewPayout(r)
    \/ CreditFind(r)
    \/ CreditBalance(r)
    \/ CreditPayout(r)
    \/ UpdateFind(r)
    \/ UpdateWrite(r)
    \/ logAdminAction(r)

SpecPayout == Init /\ [][NextPayout]_vars

(* User edits that the handler refuses for each of its reasons, next to    *)
(* edits it applies: on the caller's own id, on a missing id, with a        *)
(* balance below 0, and by the MODERATOR with a role among other fields.    *)
RefusedBodies ==
  {UpdateBody(Some("USER"), Some(TRUE), Some(700)),
   UpdateBody(None, Some(TRUE), Some(-1)),
   UpdateBody(None, Some(TRUE), Some(700))}

NextRefused ==
  \E r \in Reqs :
    \/ \E id \in {"a", "u", "nobody"}, b \in RefusedBodies : UpdateStart(r, "a", id, b)
    \/ \E id \in {"m", "u", "nobody"}, b \in RefusedBodies : UpdateStart(r, "m", id, b)
    \/ UpdateFind(r)
    \/ UpdateWrite(r)
    \/ logAdminAction(r)

SpecRefused == Init /\ [][NextRefused]_vars

(* A banned ADMIN, a banned USER who owns the PENDING s1, and a MODERATOR  *)
(* who owns the PENDING s2 and is banned by the ADMIN a while the model     *)
(* runs.                                                                   *)
InitBanned ==
  /\ users = [u \in {"a", "ba", "m", "bu"} |->
                [role |-> CASE u \in {"a", "ba"} -> "ADMIN"
                            [] u = "m" -> "MODERATOR"
                            [] OTHER -> "USER",
                 balance |-> 0,
                 isBanned |-> (u \in {"ba", "bu"}),
                 lastSubmission |-> None]]
  /\ subs = [s \in {"s1", "s2"} |-> NewSubmission(IF s = "s1" THEN "bu" ELSE "m")]
  /\ blobs = {"s1", "s2"}
  /\ payouts = <<>>
  /\ adminLogs = <<>>
  /\ reqs = [r \in Reqs |-> IdleReq]

BannedPrincipals == {"ba", "m", "bu"}

(* Every state-changing operation by each of the three principals, and the *)
(* ban of the MODERATOR by the ADMIN.                                      *)
NextBanned ==
  \E r \in Reqs :
    \/ \E uid \in BannedPrincipals :
         CreateStart(r, uid, CreateBody(Some(Chars(2)), None, TRUE))
    \/ \E p \in {<<"ba", "s2">>, <<"m", "s2">>, <<"bu", "s1">>} : DeleteStart(r, p[1], p[2])
    \/ \E uid \in BannedPrincipals :
         ReviewStart(r, uid, "s1", ReviewBody("APPROVED", None, None))
    \/ \E uid \in BannedPrincipals :
         BulkStart(r, uid, BulkBody({"s1"}, "REJECTED", Some("spam")))
    \/ \E uid \in BannedPrincipals :
         CreditStart(r, uid, "bu", CreditBody(Some(50), Some("bonus")))
    \/ \E uid \in BannedPrincipals :
         UpdateStart(r, uid, "bu", UpdateBody(None, None, Some(700)))
    \/ UpdateStart(r, "a", "m", UpdateBody(None, Some(TRUE), None))
    \/ CreateRow(r)
    \/ CreateTouch(r)
    \/ DeleteFind(r)
    \/ DeleteRow(r)
    \/ ReviewFind(r)
    \/ ReviewUpdate(r)
    \/ BulkUpdateMany(r)
    \/ CreditFind(r)
    \/ CreditBalance(r)
    \/ CreditPayout(r)
    \/ UpdateFind(r)
    \/ UpdateWrite(r)
    \/ logAdminAction(r)

SpecBanned == InitBanned /\ [][NextBanned]_vars

(***************************************************************************)
(* Properties.                                                             *)
(***************************************************************************)
Done(r) == reqs[r].pc = "done"

Succeeded(r) == Done(r) /\ reqs[r].result = "ok"

(* The request that takes the step. *)
Stepping(r) == reqs'[r] # reqs[r]

PayoutsOf(r) == {i \in DOMAIN payouts : payouts[i].req = r}

LogsOf(r) == {i \in DOMAIN adminLogs : adminLogs[i].req = r}

AdminKinds == {"review", "bulk", "update", "credit"}

BodyValid(q) ==
  CASE q.kind = "review" -> reviewSubmissionSchema(q.body)
    [] q.kind = "bulk" -> ~bulkReviewBodyError(q.body)
    [] q.kind = "update" -> updateUserSchema(q.body)
    [] q.kind = "credit" -> addBalanceSchema(q.body)
    [] OTHER -> TRUE

ReadPending(r) == reqs[r].kind = "review" /\ Has(reqs[r].found)

(* C2: of two Review requests that both read the same submission as        *)
(* PENDING and both finished without a storage failure, exactly one        *)
(* succeeded and the other failed with InvalidStateError.                  *)
C2_OneReviewWins ==
  \A r1, r2 \in Reqs :
    (/\ r1 # r2
     /\ ReadPending(r1) /\ ReadPending(r2)
     /\ reqs[r1].id = reqs[r2].id
     /\ Done(r1) /\ Done(r2)
     /\ reqs[r1].result # "failed" /\ reqs[r2].result # "failed")
      => \/ Succeeded(r1) /\ ErrorKind(reqs[r2].result) = "InvalidStateError"
         \/ Succeeded(r2) /\ ErrorKind(reqs[r1].result) = "InvalidStateError"

BonusReview(r) == reqs[r].kind = "review" /\ BonusDue(reqs[r])

(* C3: a finished Review(APPROVED, bonus B > 0) has either incremented the *)
(* owner's balance by B and added one Payout row of amount B, or done      *)
(* neither, also when one of its writes failed.                            *)
C3_BonusAllOrNothing ==
  \A r \in Reqs :
    (BonusReview(r) /\ Done(r)) =>
      \/ /\ "balance" \in reqs[r].effects
         /\ Cardinality(PayoutsOf(r)) = 1
         /\ \A i \in PayoutsOf(r) : payouts[i].amount = Get(reqs[r].body.bonusAmount)
      \/ /\ "balance" \notin reqs[r].effects
         /\ PayoutsOf(r) = {}

(* C4: a finished Review(APPROVED, bonus B > 0) has written the status and *)
(* credited the bonus, or has done neither.                                *)
C4_StatusWithBonus ==
  \A r \in Reqs :
    (BonusReview(r) /\ Done(r)) =>
      ("status" \in reqs[r].effects) = ({"balance", "payout"} \subseteq reqs[r].effects)

(* C5: a finished Credit request has applied both the balance increment    *)
(* and the Payout insertion, or neither of them.                           *)
C5_CreditAtomic ==
  \A r \in Reqs :
    (reqs[r].kind = "credit" /\ Done(r)) =>
      ("balance" \in reqs[r].effects) = ("payout" \in reqs[r].effects)

(* What a successful Credit leaves behind, the audit entry aside. *)
CreditApplied(r) ==
  /\ reqs[r].user.id # reqs[r].id
  /\ addBalanceSchema(reqs[r].body)
  /\ {"balance", "payout"} \subseteq reqs[r].effects
  /\ Cardinality(PayoutsOf(r)) = 1
  /\ \A i \in PayoutsOf(r) :
       /\ payouts[i].userId = reqs[r].id
       /\ payouts[i].amount = Get(reqs[r].body.amount)
       /\ payouts[i].adminId = reqs[r].user.id
       /\ payouts[i].status = "COMPLETED"
  /\ \A i \in LogsOf(r) :
       adminLogs[i].adminId = reqs[r].user.id /\ adminLogs[i].action = "ADD_BALANCE"

(* C6 as stated: every successful Credit has its balance increment, its    *)
(* one COMPLETED Payout row and exactly one AdminLog entry of its admin.   *)
C6_Original ==
  \A r \in Reqs :
    (reqs[r].kind = "credit" /\ Succeeded(r)) =>
      CreditApplied(r) /\ Cardinality(LogsOf(r)) = 1

(* The step in which a Credit request writes the balance. *)
CreditWritesBalance(r) ==
  /\ reqs[r].kind = "credit"
  /\ "balance" \notin reqs[r].effects
  /\ "balance" \in reqs'[r].effects

(* C6 amended: a successful Credit(U, a) by A has A # U and a in range, has *)
(* one COMPLETED Payout row {U, a, A}, and has exactly one AdminLog entry   *)
(* of A unless the audit write failed, in which case it has none; the step  *)
(* that writes the balance adds exactly a to U's balance and leaves every   *)
(* other user as it was.                                                    *)
C6_CreditEffect ==
  /\ [](\A r \in Reqs :
          (reqs[r].kind = "credit" /\ Succeeded(r)) =>
            /\ CreditApplied(r)
            /\ Cardinality(LogsOf(r)) = IF reqs[r].logError THEN 0 ELSE 1)
  /\ [][\A r \in Reqs :
          CreditWritesBalance(r) =>
            users' = [users EXCEPT ![reqs[r].id].balance = @ + Get(reqs[r].body.amount)]]_vars

C6_Witness ==
  \E r \in Reqs :
    /\ reqs[r].kind = "credit" /\ Succeeded(r) /\ ~reqs[r].logError
    /\ users[reqs[r].id].balance > 700

SelfTargeted(r) ==
  reqs[r].kind \in {"update", "credit"} /\ reqs[r].id = reqs[r].user.id

(* C7 as stated: every updateUser and Credit request on the caller's own   *)
(* id fails with Forbidden.                                                *)
C7_Original ==
  \A r \in Reqs :
    (SelfTargeted(r) /\ Done(r)) => ErrorKind(reqs[r].result) = "Forbidden"

(* C7 amended: canModifyUser(actor, actor.id) is false for every role, and *)
(* every updateUser and Credit request on the caller's own id fails in its *)
(* first step and changes nothing; it fails with Forbidden, except that a  *)
(* body that fails validation, sent by a caller who is not banned and is   *)
(* ADMIN or MODERATOR, fails with ValidationError.                         *)
C7_SelfRefused ==
  /\ \A id \in TargetIds, role \in {"USER", "MODERATOR", "ADMIN"}, banned \in BOOLEAN :
       ~canModifyUser([id |-> id, role |-> role, isBanned |-> banned], id)
  /\ \A r \in Reqs :
       SelfTargeted(r) =>
         /\ Done(r)
         /\ reqs[r].effects = {}
         /\ LogsOf(r) = {} /\ PayoutsOf(r) = {}
         /\ ErrorKind(reqs[r].result) =
              IF isAuthenticated(reqs[r].user) /\ isAdmin(reqs[r].user) /\ ~BodyValid(reqs[r])
              THEN "ValidationError" ELSE "Forbidden"

C7_Witness ==
  /\ \E r \in Reqs :
       SelfTargeted(r) /\ reqs[r].user.role = "MODERATOR" /\ reqs[r].result = "cannot_modify"
  /\ \E r \in Reqs :
       SelfTargeted(r) /\ reqs[r].user.role = "ADMIN" /\ reqs[r].result = "cannot_modify"

(* C8: no step of a Review, BulkReview, Credit or updateUser request       *)
(* changes the balance, role or ban flag of the user who sent it.          *)
C8_NoSelfModification ==
  [][\A r \in Reqs :
       (Stepping(r) /\ reqs'[r].kind \in AdminKinds)
         => users'[reqs'[r].user.id] = users[reqs'[r].user.id]]_vars

ModeratorRolePatch(r) ==
  /\ reqs[r].kind = "update"
  /\ reqs[r].user.role = "MODERATOR"
  /\ Has(reqs[r].body.role)

(* C9 as stated: every updateUser request of a MODERATOR that carries a    *)
(* role fails with Forbidden.                                              *)
C9_Original ==
  \A r \in Reqs :
    (ModeratorRolePatch(r) /\ Done(r)) => ErrorKind(reqs[r].result) = "Forbidden"

(* The error kinds the checks of the update handler leave to a MODERATOR's *)
(* patch that carries a role, in the order the handler makes them.         *)
ModeratorRolePatchErrors(q) ==
  IF ~isAuthenticated(q.user) THEN {"Forbidden"}
  ELSE IF ~updateUserSchema(q.body) THEN {"ValidationError"}
  ELSE IF q.id = q.user.id THEN {"Forbidden"}
  ELSE IF q.id \notin DOMAIN users THEN {"NotFound", "StorageError"}
  ELSE {"Forbidden", "StorageError"}

(* C9 amended: a user's role changes only in the write of an updateUser    *)
(* request whose actor was ADMIN when the request was authenticated and    *)
(* whose target is a different user; an updateUser request of a MODERATOR  *)
(* that carries a role never writes anything and fails: with Forbidden     *)
(* when the patch is valid and the target exists, with ValidationError     *)
(* when the patch is invalid, with NotFound when the target does not exist *)
(* (and with a storage error when the lookup of the target throws).        *)
C9_RoleChangeByAdminOnly ==
  /\ [](\A r \in Reqs :
          ModeratorRolePatch(r) =>
            /\ reqs[r].effects = {}
            /\ reqs[r].pc \in {"find", "done"}
            /\ Done(r) => ErrorKind(reqs[r].result) \in ModeratorRolePatchErrors(reqs[r]))
  /\ [][\A t \in DOMAIN users :
          users'[t].role # users[t].role =>
            \E r \in Reqs :
              /\ Stepping(r)
              /\ reqs[r].kind = "update" /\ reqs[r].pc = "update"
              /\ reqs[r].user.role = "ADMIN"
              /\ reqs[r].id = t
              /\ reqs[r].user.id # t]_vars

C9_Witness ==
  /\ \E r \in Reqs : ModeratorRolePatch(r) /\ reqs[r].result = "role_forbidden"
  /\ users["u"].role = "ADMIN"

(* C10: every Review, BulkReview, Credit and updateUser request of a       *)
(* principal whose role is USER fails with Forbidden in its first step     *)
(* without a write, and no step of any request of such a principal changes *)
(* a user, a field of a submission, a Payout row or an AdminLog row.       *)
C10_UserChangesNothing ==
  /\ [](\A r \in Reqs :
          (reqs[r].user.role = "USER" /\ reqs[r].kind \in AdminKinds) =>
            /\ Done(r)
            /\ ErrorKind(reqs[r].result) = "Forbidden"
            /\ reqs[r].effects = {})
  /\ [][\A r \in Reqs :
          (Stepping(r) /\ reqs'[r].user.role = "USER") =>
            /\ users' = users
            /\ payouts' = payouts
            /\ adminLogs' = adminLogs
            /\ \A s \in DOMAIN subs \cap DOMAIN subs' : subs'[s] = subs[s]]_vars

C10_Witness ==
  /\ \E r \in Reqs :
       reqs[r].kind = "review" /\ reqs[r].user.role = "USER" /\ reqs[r].result = "admin_required"
  /\ \E r \in Reqs :
       reqs[r].kind \in {"credit", "update"} /\ reqs[r].user.role = "USER" /\ Done(r)

(* The step in which a BulkReview request runs its updateMany. *)
BulkUpdates(r) ==
  reqs[r].kind = "bulk" /\ reqs[r].pc = "updateMany" /\ reqs'[r].pc = "log"

PassesAdminGate(q) == isAuthenticated(q.user) /\ isAdmin(q.user)

(* C11: the updateMany of a BulkReview changes exactly the submissions     *)
(* among its ids that are PENDING at that moment, sets the decision and    *)
(* the reviewer on them, leaves every other submission as it was, and the  *)
(* count it returns is the number of submissions it changed; a BulkReview  *)
(* that passed the gate and validation ends in an error only when the      *)
(* store throws, never because some of its ids are terminal.               *)
C11_BulkChangesPendingOnly ==
  /\ [][\A r \in Reqs :
          BulkUpdates(r) =>
            LET changed == {s \in DOMAIN subs : subs'[s] # subs[s]} IN
              /\ DOMAIN subs' = DOMAIN subs
              /\ changed = {s \in DOMAIN subs \cap reqs[r].body.submissionIds :
                              subs[s].status = "PENDING"}
              /\ \A s \in changed :
                   /\ subs'[s].status = reqs[r].body.status
                   /\ subs'[s].reviewedBy = Some(reqs[r].user.id)
                   /\ subs'[s].userId = subs[s].userId
              /\ reqs'[r].count = Cardinality(changed)]_vars
  /\ [](\A r \in Reqs :
          (reqs[r].kind = "bulk" /\ Done(r) /\ PassesAdminGate(reqs[r]) /\ BodyValid(reqs[r]))
            => reqs[r].result \in {"ok", "failed"})

C11_Witness ==
  \E r \in Reqs :
    /\ reqs[r].kind = "bulk" /\ Succeeded(r)
    /\ reqs[r].body.submissionIds = {"s1", "s2"}
    /\ reqs[r].count = 1
    /\ \E s \in {"s1", "s2"} : subs[s].reviewedBy = Some("m")

(* The step in which a Delete request gets the answer of its lookup. *)
DeleteLooksUp(r) ==
  /\ reqs[r].kind = "delete" /\ reqs[r].pc = "find"
  /\ Stepping(r) /\ reqs'[r].result # "failed"

(* The step in which a Delete request gets the answer of its row delete. *)
DeleteRemoves(r) ==
  /\ reqs[r].kind = "delete" /\ reqs[r].pc = "delete"
  /\ Stepping(r) /\ reqs'[r].result # "failed"

OwnedByCaller(q) == q.id \in DOMAIN subs /\ subs[q.id].userId = q.user.id

Refused(r, kind) ==
  /\ reqs'[r].pc = "done" /\ ErrorKind(reqs'[r].result) = kind
  /\ subs' = subs /\ blobs' = blobs

DeleteOutcome(terminalKind) ==
  \A r \in Reqs :
    /\ DeleteLooksUp(r) =>
         /\ (OwnedByCaller(reqs[r]) /\ subs[reqs[r].id].status = "PENDING")
              => (reqs'[r].pc = "delete" /\ subs' = subs)
         /\ (OwnedByCaller(reqs[r]) /\ subs[reqs[r].id].status # "PENDING")
              => Refused(r, terminalKind)
         /\ (reqs[r].id \in DOMAIN subs /\ ~OwnedByCaller(reqs[r]))
              => Refused(r, "NotFound")
    /\ DeleteRemoves(r) =>
         /\ reqs'[r].result = "ok"
         /\ DOMAIN subs' = DOMAIN subs \ {reqs[r].id}
         /\ \A s \in DOMAIN subs' : subs'[s] = subs[s]

RejectsWithoutReason(q) ==
  /\ q.kind \in {"review", "bulk"}
  /\ q.body.status = "REJECTED"
  /\ (q.body.rejectReason = None \/ q.body.rejectReason = Some(""))

(* C13: a Review or BulkReview with decision REJECTED and a missing or     *)
(* empty reject reason, sent by an ADMIN or MODERATOR, ends at once with   *)
(* ValidationError; none of its steps changes a submission, a balance, a   *)
(* payout or the audit log.                                                *)
C13_RejectNeedsReason ==
  /\ [](\A r \in Reqs :
          (reqs[r].pc # "idle" /\ RejectsWithoutReason(reqs[r])) =>
            /\ Done(r)
            /\ reqs[r].effects = {}
            /\ PayoutsOf(r) = {} /\ LogsOf(r) = {}
            /\ PassesAdminGate(reqs[r]) => ErrorKind(reqs[r].result) = "ValidationError")
  /\ [][\A r \in Reqs :
          (Stepping(r) /\ RejectsWithoutReason(reqs'[r])) =>
            UNCHANGED <<users, subs, blobs, payouts, adminLogs>>]_vars

C13_Witness ==
  \E r, b \in Reqs :
    /\ reqs[r].kind = "review" /\ reqs[b].kind = "bulk"
    /\ RejectsWithoutReason(reqs[r]) /\ RejectsWithoutReason(reqs[b])
    /\ reqs[r].result = "validation" /\ reqs[b].result = "validation"
    /\ reqs[r].body.rejectReason # reqs[b].body.rejectReason
    /\ subs[reqs[r].id].status = "PENDING" /\ subs[reqs[r].id].reviewedBy = None

(* The step in which the audit insert of request r fails. *)
AuditInsertFails(r) == reqs[r].pc = "log" /\ reqs'[r].logError

(* C14: when the AdminLog insert of a Review, BulkReview, Credit or        *)
(* updateUser fails, that step writes nothing to users, submissions, blobs *)
(* and payouts, undoes none of the request's effects, and the request      *)
(* reports success.                                                        *)
C14_AuditFailureSwallowed ==
  /\ [][\A r \in Reqs :
          AuditInsertFails(r) =>
            /\ reqs[r].kind \in AdminKinds
            /\ reqs'[r].pc = "done" /\ reqs'[r].result = "ok"
            /\ reqs'[r].effects = reqs[r].effects
            /\ UNCHANGED <<users, subs, blobs, payouts, adminLogs>>]_vars
  /\ [](\A r \in Reqs : reqs[r].logError => (Succeeded(r) /\ LogsOf(r) = {}))

C14_Witness ==
  \E r, c \in Reqs :
    /\ reqs[r].kind = "review" /\ reqs[c].kind = "credit"
    /\ reqs[r].logError /\ reqs[c].logError
    /\ Succeeded(r) /\ Succeeded(c)
    /\ subs["s1"].status = "APPROVED"
    /\ users["u"].balance = 250
    /\ Len(payouts) = 2 /\ Len(adminLogs) = 0

(* C15: in every reachable state a submission has a reject reason exactly  *)
(* when its status is REJECTED, and the reason of a REJECTED submission is *)
(* not empty.                                                              *)
C15_ReasonIffRejected ==
  \A s \in DOMAIN subs :
    /\ Has(subs[s].rejectReason) <=> subs[s].status = "REJECTED"
    /\ \A x \in subs[s].rejectReason : StrLen(x) > 0

(* C16: once a review has set the reviewer, the review time and the reject *)
(* reason of a submission, no step of any request changes them.            *)
C16_ReviewFieldsFrozen ==
  [][\A s \in DOMAIN subs :
       (Has(subs[s].reviewedBy) /\ s \in DOMAIN subs') =>
         /\ subs'[s].reviewedBy = subs[s].reviewedBy
         /\ subs'[s].reviewedAt = subs[s].reviewedAt
         /\ subs'[s].rejectReason = subs[s].rejectReason]_vars

(* C17: in every reachable state the balance of every user is at least 0,  *)
(* whatever Review bonuses, Credits and updateUser balance overwrites were *)
(* requested and however their steps interleave.                           *)
C17_BalanceNeverNegative == \A u \in DOMAIN users : users[u].balance >= 0

C17_Witness ==
  \E r, c \in Reqs :
    /\ reqs[r].kind = "update" /\ reqs[r].body.balance = Some(-1)
    /\ reqs[r].result = "validation"
    /\ reqs[c].kind \in {"review", "credit"} /\ "balance" \in reqs[c].effects
    /\ users["u"].balance > 0

(* The step in which a login creates its user row. *)
LoginCreates(r) ==
  reqs[r].kind = "login" /\ reqs[r].pc = "create" /\ reqs'[r].result = "ok"

CreatedBy(r) == DOMAIN users' \ DOMAIN users

(* C18: the create step of a login whose account id has no user adds       *)
(* exactly one row, with role ADMIN when the id is on the allow-list and   *)
(* USER otherwise, balance 0 and banned false, and leaves the other rows   *)
(* as they were; no login step changes the role of an existing user; no    *)
(* two users have the same account id.                                     *)
C18_NewUserRole ==
  /\ [][\A r \in Reqs :
          LoginCreates(r) =>
            LET id == Get(reqs[r].body.accounts).accountId IN
              /\ \A u \in DOMAIN users : users[u].epicId # id /\ users'[u] = users[u]
              /\ Cardinality(CreatedBy(r)) = 1
              /\ \A n \in CreatedBy(r) :
                   /\ users'[n].epicId = id
                   /\ users'[n].role = "ADMIN" <=> id \in AdminEpicIds
                   /\ users'[n].role = "USER" <=> id \notin AdminEpicIds
                   /\ users'[n].balance = 0
                   /\ users'[n].isBanned = FALSE]_vars
  /\ [][\A u \in DOMAIN users : users'[u].role = users[u].role]_vars
  /\ [](\A u, v \in DOMAIN users : users[u].epicId = users[v].epicId => u = v)

C18_Witness ==
  \E r, q \in Reqs :
    /\ Succeeded(r) /\ Succeeded(q)
    /\ "create" \in reqs[r].effects /\ "create" \in reqs[q].effects
    /\ users[Get(reqs[r].found)].epicId = IdListed
    /\ users[Get(reqs[r].found)].role = "ADMIN"
    /\ users[Get(reqs[q].found)].epicId = IdShort
    /\ users[Get(reqs[q].found)].role = "USER"

(* A login whose provider account has no display name. *)
NoDisplayName(q) ==
  LET name == Get(q.body.accounts).displayName IN name = None \/ name = Some(<<>>)

(* The create step of such a login for account id. *)
CreatesUnnamed(r, id) ==
  LoginCreates(r) /\ NoDisplayName(reqs[r]) /\ Get(reqs[r].body.accounts).accountId = id

(* C19 as stated: the user created for "abc123" without a display name is  *)
(* a USER with nickname "User_abc123ab".                                   *)
C19_Original ==
  [][\A r \in Reqs :
       CreatesUnnamed(r, IdShort) =>
         \A n \in CreatedBy(r) :
           /\ users'[n].role = "USER"
           /\ users'[n].nickname =
                <<"U", "s", "e", "r", "_", "a", "b", "c", "1", "2", "3", "a", "b">>]_vars

(* C19: a user created without a display name gets the nickname "User_"    *)
(* followed by the last 8 characters of the account id, the whole id when  *)
(* it has fewer than 8: "User_abc123" for "abc123", a USER as the id is    *)
(* not on the allow-list, and "User_ic000042" for "epic000042".            *)
C19_PlaceholderNickname ==
  [][\A r \in Reqs :
       (LoginCreates(r) /\ NoDisplayName(reqs[r])) =>
         LET id == Get(reqs[r].body.accounts).accountId
             k == IF Len(id) < 8 THEN Len(id) ELSE 8
         IN \A n \in CreatedBy(r) :
              /\ Len(users'[n].nickname) = 5 + k
              /\ SubSeq(users'[n].nickname, 1, 5) = <<"U", "s", "e", "r", "_">>
              /\ \A i \in 1..k : users'[n].nickname[5 + i] = id[Len(id) - k + i]
              /\ id = IdShort =>
                   /\ users'[n].role = "USER"
                   /\ users'[n].nickname =
                        <<"U", "s", "e", "r", "_", "a", "b", "c", "1", "2", "3">>
              /\ id = IdListed =>
                   users'[n].nickname =
                     <<"U", "s", "e", "r", "_", "i", "c", "0", "0", "0", "0", "4", "2">>]_vars

C19_Witness ==
  \E r, q \in Reqs :
    /\ Succeeded(r) /\ Succeeded(q)
    /\ "create" \in reqs[r].effects /\ "create" \in reqs[q].effects
    /\ reqs[r].body.accounts = Some(EpicUser(IdShort, None))
    /\ reqs[q].body.accounts = Some(EpicUser(IdListed, None))
    /\ users[Get(reqs[r].found)].nickname =
         <<"U", "s", "e", "r", "_", "a", "b", "c", "1", "2", "3">>
    /\ Len(users[Get(reqs[q].found)].nickname) = 13

(* A payload on which identity resolution fails. *)
BadPayload(p) == ~Has(p.account_id) \/ ~p.ok \/ ~Has(p.accounts)

(* C20: a login whose payload has no account id, whose provider request is *)
(* not ok or whose account list is empty ends with an error, never reaches *)
(* a database call, and none of its steps changes the set of users or a    *)
(* user row.                                                               *)
C20_FailedLoginChangesNothing ==
  /\ [](\A r \in Reqs :
          (reqs[r].kind = "login" /\ BadPayload(reqs[r].body)) =>
            /\ reqs[r].pc \in {"fetch", "done"}
            /\ Done(r) => reqs[r].result = "failed"
            /\ reqs[r].effects = {} /\ reqs[r].found = None)
  /\ [][\A r \in Reqs :
          (Stepping(r) /\ reqs'[r].kind = "login" /\ BadPayload(reqs'[r].body)) =>
            users' = users]_vars

C20_Witness ==
  \E r, q \in Reqs :
    /\ reqs[r].kind = "login" /\ reqs[q].kind = "login"
    /\ Done(r) /\ Done(q)
    /\ ~Has(reqs[r].body.account_id)
    /\ Has(reqs[q].body.account_id) /\ reqs[q].body.ok /\ ~Has(reqs[q].body.accounts)
    /\ reqs[r].result = "failed" /\ reqs[q].result = "failed"
    /\ DOMAIN users = {0}

(* C21: a Create whose user is banned when the request is authenticated    *)
(* ends at once with Forbidden; it stages no blob, creates no submission   *)
(* row and does not write the user's last-submission time.                 *)
C21_BannedCreatesNothing ==
  /\ [](\A r \in Reqs :
          (reqs[r].kind = "create" /\ reqs[r].user.isBanned) =>
            /\ Done(r) /\ ErrorKind(reqs[r].result) = "Forbidden"
            /\ reqs[r].effects = {}
            /\ reqs[r].id \notin DOMAIN subs /\ reqs[r].id \notin blobs
            /\ users[reqs[r].user.id].lastSubmission = None)
  /\ [][\A r \in Reqs :
          (Stepping(r) /\ reqs'[r].kind = "create" /\ reqs'[r].user.isBanned) =>
            UNCHANGED <<users, subs, blobs, payouts, adminLogs>>]_vars

C21_Witness ==
  \E r, q \in Reqs :
    /\ reqs[r].kind = "create" /\ reqs[r].user.id = "b" /\ reqs[r].result = "auth_required"
    /\ reqs[q].kind = "create" /\ reqs[q].user.id = "u" /\ Succeeded(q)
    /\ reqs[r].body = reqs[q].body
    /\ DOMAIN subs = {"s1", reqs[q].id}

(* C22: after a Create that failed validation there is neither a           *)
(* submission row nor a blob for it.                                       *)
C22_NoOrphanBlob ==
  \A r \in Reqs :
    (reqs[r].kind = "create" /\ Done(r) /\ reqs[r].result = "validation") =>
      (reqs[r].id \notin DOMAIN subs /\ reqs[r].id \notin blobs)

(* C23: no step of a BulkReview request changes a user row or the payouts, *)
(* whatever its decision and also when its body carries a bonusAmount; no  *)
(* payout row comes from a BulkReview.                                     *)
C23_BulkPaysNothing ==
  /\ [][\A r \in Reqs :
          (Stepping(r) /\ reqs'[r].kind = "bulk") =>
            (users' = users /\ payouts' = payouts)]_vars
  /\ [](\A r \in Reqs :
          reqs[r].kind = "bulk" =>
            (PayoutsOf(r) = {} /\ reqs[r].effects \subseteq {"status", "log"}))

C23_Witness ==
  \E r \in Reqs :
    /\ reqs[r].kind = "bulk" /\ Succeeded(r)
    /\ reqs[r].body.status = "APPROVED" /\ reqs[r].body.bonusAmount = Some(200)
    /\ reqs[r].count = 2
    /\ \A u \in DOMAIN users : users[u].balance = 0
    /\ payouts = <<>>

(* The step in which an updateUser request writes the user row. *)
UpdateWrites(r) ==
  reqs[r].kind = "update" /\ reqs[r].pc = "update" /\ reqs'[r].pc = "log"

(* C24: the write of an updateUser request that carries a balance sets the *)
(* target's balance to that value and leaves the other users as they were; *)
(* no step of an updateUser request adds, changes or removes a payout row. *)
C24_BalanceOverwrite ==
  /\ [][\A r \in Reqs :
          (UpdateWrites(r) /\ Has(reqs[r].body.balance)) =>
            /\ users'[reqs[r].id].balance = Get(reqs[r].body.balance)
            /\ \A u \in DOMAIN users \ {reqs[r].id} : users'[u] = users[u]
            /\ DOMAIN users' = DOMAIN users]_vars
  /\ [][\A r \in Reqs :
          (Stepping(r) /\ reqs'[r].kind = "update") => payouts' = payouts]_vars
  /\ [](\A r \in Reqs : reqs[r].kind = "update" => PayoutsOf(r) = {})

C24_Witness ==
  \E r, c \in Reqs :
    /\ c < r
    /\ reqs[c].kind = "credit" /\ Succeeded(c)
    /\ reqs[r].kind = "update" /\ Succeeded(r)
    /\ reqs[r].body.balance = Some(700)
    /\ users["u"].balance = 700
    /\ Len(payouts) = 1 /\ PayoutsOf(c) = {1}

(* A Review whose bonusAmount is above 1000 or below 0. *)
BonusOutOfRange(q) ==
  q.kind = "review" /\ \E n \in q.body.bonusAmount : n > 1000 \/ n < 0

RejectingReview(q) == q.kind = "review" /\ q.body.status = "REJECTED"

(* C25: a Review by an ADMIN or MODERATOR whose bonusAmount is above 1000  *)
(* or below 0 ends at once with ValidationError and none of its steps      *)
(* changes a submission, a user or a payout; no step of a Review with      *)
(* decision REJECTED changes a user row or the payouts, whatever its       *)
(* bonusAmount.                                                            *)
C25_BonusWithinCap ==
  /\ [](\A r \in Reqs :
          BonusOutOfRange(reqs[r]) =>
            /\ Done(r) /\ reqs[r].effects = {}
            /\ PassesAdminGate(reqs[r]) => ErrorKind(reqs[r].result) = "ValidationError")
  /\ [][\A r \in Reqs :
          (Stepping(r) /\ BonusOutOfRange(reqs'[r])) =>
            UNCHANGED <<users, subs, blobs, payouts, adminLogs>>]_vars
  /\ [][\A r \in Reqs :
          (Stepping(r) /\ RejectingReview(reqs'[r])) =>
            (users' = users /\ payouts' = payouts)]_vars
  /\ [](\A r \in Reqs :
          RejectingReview(reqs[r]) =>
            (PayoutsOf(r) = {} /\ reqs[r].effects \subseteq {"status", "log"}))

C25_Witness ==
  \E r, q \in Reqs :
    /\ reqs[r].kind = "review" /\ reqs[r].id = "s1"
    /\ reqs[r].body = ReviewBody("APPROVED", None, Some(1001))
    /\ reqs[r].result = "validation"
    /\ reqs[q].kind = "review" /\ reqs[q].id = "s2"
    /\ reqs[q].body = ReviewBody("REJECTED", Some("spam"), Some(200)) /\ Succeeded(q)
    /\ subs["s1"].status = "PENDING" /\ subs["s2"].status = "REJECTED"
    /\ \A u \in DOMAIN users : users[u].balance = 0
    /\ payouts = <<>>

(* C26: no step removes a submission whose status is APPROVED or REJECTED, *)
(* however a Delete by the owner interleaves with a Review of it.          *)
C26_TerminalNeverRemoved ==
  [][\A s \in DOMAIN subs : subs[s].status # "PENDING" => s \in DOMAIN subs']_vars

(* C27: a finished Review request that wrote the status, and whose audit   *)
(* insert did not fail, has exactly one REVIEW_SUBMISSION audit entry for  *)
(* its submission by its admin.                                            *)
C27_ReviewAudited ==
  \A r \in Reqs :
    (reqs[r].kind = "review" /\ Done(r) /\ "status" \in reqs[r].effects /\ ~reqs[r].logError) =>
      /\ Cardinality(LogsOf(r)) = 1
      /\ \A i \in LogsOf(r) :
           /\ adminLogs[i].action = "REVIEW_SUBMISSION"
           /\ adminLogs[i].subject = reqs[r].id
           /\ adminLogs[i].adminId = reqs[r].user.id

(* A finished BulkReview request of an ADMIN or MODERATOR. *)
BulkDone(r) == reqs[r].kind = "bulk" /\ Done(r) /\ PassesAdminGate(reqs[r])

(* C28 as stated: every BulkReview that passed validation has exactly one  *)
(* audit entry, whose count is the count returned.                         *)
C28_Original ==
  \A r \in Reqs :
    (BulkDone(r) /\ reqs[r].result # "validation") =>
      /\ Cardinality(LogsOf(r)) = 1
      /\ \A i \in LogsOf(r) : adminLogs[i].count = reqs[r].count

(* C28: a BulkReview that answers success and whose audit insert did not   *)
(* fail has exactly one BULK_REVIEW_SUBMISSIONS audit entry, whose count   *)
(* is the count returned, whatever the number of ids and of submissions    *)
(* changed; a BulkReview that failed validation, whose updateMany threw or *)
(* whose audit insert failed has none.                                     *)
C28_BulkAudited ==
  \A r \in Reqs :
    BulkDone(r) =>
      /\ (Succeeded(r) /\ ~reqs[r].logError) =>
           /\ Cardinality(LogsOf(r)) = 1
           /\ \A i \in LogsOf(r) :
                /\ adminLogs[i].count = reqs[r].count
                /\ adminLogs[i].action = "BULK_REVIEW_SUBMISSIONS"
                /\ adminLogs[i].adminId = reqs[r].user.id
      /\ (~Succeeded(r) \/ reqs[r].logError) => LogsOf(r) = {}
      /\ reqs[r].result \in {"ok", "validation", "failed"}

C28_Witness ==
  \E r, q \in Reqs :
    /\ r < q
    /\ BulkDone(r) /\ Succeeded(r) /\ reqs[r].count = 2 /\ ~reqs[r].logError
    /\ BulkDone(q) /\ Succeeded(q) /\ reqs[q].count = 0 /\ ~reqs[q].logError
    /\ Len(adminLogs) = 2
    /\ adminLogs[1].count = 2 /\ adminLogs[2].count = 0

(* The step in which a Create request inserts its submission row. *)
CreateInserts(r) ==
  reqs[r].kind = "create" /\ reqs[r].pc = "create" /\ reqs'[r].pc = "touch"

(* C29: in every reachable state a submission has a reviewer exactly when  *)
(* its status is not PENDING, and a review time exactly when its status is *)
(* not PENDING; the row a Create inserts is PENDING, owned by the caller,  *)
(* with no reviewer, no review time and no reject reason.                  *)
C29_ReviewerIffReviewed ==
  /\ [](\A s \in DOMAIN subs :
          /\ Has(subs[s].reviewedBy) <=> subs[s].status # "PENDING"
          /\ Has(subs[s].reviewedAt) <=> subs[s].status # "PENDING"
          /\ subs[s].status \in {"PENDING", "APPROVED", "REJECTED"})
  /\ [][\A r \in Reqs :
          CreateInserts(r) =>
            /\ DOMAIN subs' = DOMAIN subs \cup {reqs[r].id}
            /\ reqs[r].id \notin DOMAIN subs
            /\ \A s \in DOMAIN subs : subs'[s] = subs[s]
            /\ subs'[reqs[r].id] =
                 [userId |-> reqs[r].user.id, status |-> "PENDING", rejectReason |-> {},
                  reviewedBy |-> {}, reviewedAt |-> {}]]_vars

C29_Witness ==
  \E c, r \in Reqs :
    /\ reqs[c].kind = "create" /\ Succeeded(c)
    /\ reqs[r].kind \in {"review", "bulk"} /\ Succeeded(r)
    /\ subs[reqs[c].id].status # "PENDING"
    /\ subs[reqs[c].id].reviewedBy = Some("a")
    /\ Has(subs[reqs[c].id].reviewedAt)

(* The step in which a login updates the row of its existing user. *)
LoginUpdates(r) ==
  reqs[r].kind = "login" /\ reqs[r].pc = "update" /\ reqs'[r].result = "ok"

(* C30: the update step of a login whose account id already has a user     *)
(* sets that user's nickname to the display name when the provider gave    *)
(* one and leaves the nickname as it was when it gave none; the user's     *)
(* other fields and the other users stay as they were.                     *)
C30_NicknameOverwrite ==
  [][\A r \in Reqs :
       LoginUpdates(r) =>
         LET u == Get(reqs[r].found)
             epicUser == Get(reqs[r].body.accounts)
         IN /\ users[u].epicId = epicUser.accountId
            /\ Has(epicUser.displayName) => users'[u].nickname = Get(epicUser.displayName)
            /\ ~Has(epicUser.displayName) => users'[u].nickname = users[u].nickname
            /\ users' = [users EXCEPT ![u].nickname = users'[u].nickname]]_vars

C30_Witness ==
  \E r, q \in Reqs :
    /\ Succeeded(r) /\ Succeeded(q)
    /\ reqs[r].effects = {"update"} /\ reqs[q].effects = {"update"}
    /\ reqs[r].body.accounts = Some(EpicUser(IdOld, Some(<<"N", "e", "o">>)))
    /\ reqs[q].body.accounts = Some(EpicUser(IdOld, None))
    /\ users[0].nickname = <<"N", "e", "o">>

(* A login whose payload is well formed and whose calls to the provider    *)
(* and to the database did not fail for a reason of their own.             *)
ResolvesOrStoreFailed(r) ==
  \/ /\ Succeeded(r)
     /\ \E u \in reqs[r].found :
          u \in DOMAIN users /\ users[u].epicId = Get(reqs[r].body.accounts).accountId
  \/ reqs[r].result = "failed" /\ "conflict" \notin reqs[r].effects

(* C31: every finished login with a well-formed payload has returned the   *)
(* user of its account id, unless a call of its own failed in the provider *)
(* or in the store, also when two first logins of one account id run       *)
(* concurrently; no two users have the same account id.                    *)
C31_EveryLoginResolves ==
  /\ \A r \in Reqs :
       (reqs[r].kind = "login" /\ Done(r) /\ ~BadPayload(reqs[r].body)) =>
         ResolvesOrStoreFailed(r)
  /\ \A u, v \in DOMAIN users : users[u].epicId = users[v].epicId => u = v

(* Every payout row is COMPLETED, has a completion time and an amount      *)
(* above 0.                                                                *)
PayoutsWellFormed ==
  \A i \in DOMAIN payouts :
    /\ payouts[i].status = "COMPLETED"
    /\ Has(payouts[i].completedAt)
    /\ payouts[i].amount > 0

(* A step keeps the payout rows it found and adds at most one. *)
PayoutsAppendOnly ==
  /\ Len(payouts') \in {Len(payouts), Len(payouts) + 1}
  /\ SubSeq(payouts', 1, Len(payouts)) = payouts

Reviewers == {"ADMIN", "MODERATOR"}

(* C32 as stated: the admin of a payout row has role ADMIN or MODERATOR in *)
(* the users table at the step that creates the row.                       *)
C32_Original ==
  /\ []PayoutsWellFormed
  /\ [][/\ PayoutsAppendOnly
        /\ Len(payouts') > Len(payouts) =>
             users[payouts'[Len(payouts')].adminId].role \in Reviewers]_vars

(* C32: every payout row is COMPLETED with a completion time and an amount *)
(* above 0; its admin is the user of the request that created it, who had  *)
(* role ADMIN or MODERATOR when that request was authenticated; every step *)
(* keeps the existing payout rows as they are and adds at most one.        *)
C32_PayoutsAppendOnly ==
  /\ []PayoutsWellFormed
  /\ [](\A i \in DOMAIN payouts :
          /\ reqs[payouts[i].req].user.id = payouts[i].adminId
          /\ reqs[payouts[i].req].user.role \in Reviewers
          /\ reqs[payouts[i].req].kind \in {"review", "credit"})
  /\ [][PayoutsAppendOnly]_vars

C32_Witness ==
  /\ Len(payouts) = 1
  /\ payouts[1].adminId = "m"
  /\ users["m"].role = "USER"
  /\ payouts[1].amount \in {50, 200}
  /\ \E r \in Reqs : reqs[r].kind = "update" /\ Succeeded(r)

(* The answers with which the update handler refuses a request. *)
UpdateRefusals == {"validation", "cannot_modify", "not_found", "role_forbidden"}

UpdateRefused(q) == q.kind = "update" /\ q.pc = "done" /\ q.result \in UpdateRefusals

(* C33: an updateUser request that is refused (own id, missing target,     *)
(* invalid patch, role in a MODERATOR's patch) has written no user row and *)
(* has no audit entry, and the step that refuses it leaves every user row  *)
(* and the audit log as they were.                                         *)
C33_RefusedUpdateWritesNothing ==
  /\ [](\A r \in Reqs :
          UpdateRefused(reqs[r]) => (reqs[r].effects = {} /\ LogsOf(r) = {}))
  /\ [][\A r \in Reqs :
          (Stepping(r) /\ UpdateRefused(reqs'[r])) =>
             (users' = users /\ adminLogs' = adminLogs)]_vars

C33_Witness ==
  /\ reqs[1].kind = "update" /\ reqs[1].user.id = "m" /\ reqs[1].id = "u"
  /\ reqs[1].body = UpdateBody(Some("USER"), Some(TRUE), Some(700))
  /\ reqs[1].result = "role_forbidden"
  /\ reqs[2].kind = "update" /\ reqs[2].user.id = "a" /\ reqs[2].id = "nobody"
  /\ reqs[2].result = "not_found"
  /\ users["u"] = [role |-> "USER", balance |-> 0, isBanned |-> FALSE]
  /\ adminLogs = <<>>

(* The payout rows that Review requests on submission s inserted. *)
BonusPayouts(s) ==
  {i \in DOMAIN payouts :
     reqs[payouts[i].req].kind = "review" /\ reqs[payouts[i].req].id = s}

(* The Review requests on submission s that incremented the owner's balance. *)
BonusIncrements(s) ==
  {r \in Reqs : reqs[r].kind = "review" /\ reqs[r].id = s /\ "balance" \in reqs[r].effects}

(* C34: each submission has at most one bonus payout row and at most one   *)
(* bonus increment of its owner's balance.                                 *)
C34_OneBonusPerSubmission ==
  \A s \in DOMAIN subs :
    Cardinality(BonusPayouts(s)) <= 1 /\ Cardinality(BonusIncrements(s)) <= 1

RECURSIVE PayoutSum(_, _)
(* The sum of the amounts of the first n payout rows that belong to user u. *)
PayoutSum(u, n) ==
  IF n = 0 THEN 0
  ELSE PayoutSum(u, n - 1) + (IF payouts[n].userId = u THEN payouts[n].amount ELSE 0)

NoBalanceOverwrite ==
  \A r \in Reqs : ~(reqs[r].kind = "update" /\ Has(reqs[r].body.balance))

(* C35: when no request is in flight and no updateUser request carried a   *)
(* balance, each user's balance equals the sum of the amounts of that      *)
(* user's payout rows.                                                     *)
C35_LedgerConsistent ==
  (NoBalanceOverwrite /\ \A r \in Reqs : reqs[r].pc \in {"idle", "done"}) =>
    \A u \in DOMAIN users : users[u].balance = PayoutSum(u, Len(payouts))

(* C36: a Create request that reported a failure has left no submission   *)
(* row, and every submission row still has its blob.                       *)
C36_CreateAllOrNothing ==
  /\ \A r \in Reqs :
       (reqs[r].kind = "create" /\ Done(r) /\ ~Succeeded(r)) =>
         reqs[r].id \notin DOMAIN subs
  /\ \A s \in DOMAIN subs : s \in blobs

(* C37: no step of a login changes the role, the balance or the ban flag   *)
(* of a user that exists, whether or not the user's id is on the           *)
(* allow-list; every user that exists stays.                               *)
C37_ReloginKeepsStanding ==
  [][\A r \in Reqs :
       (Stepping(r) /\ reqs'[r].kind = "login") =>
         \A u \in DOMAIN users :
           /\ u \in DOMAIN users'
           /\ users'[u].role = users[u].role
           /\ users'[u].balance = users[u].balance
           /\ users'[u].isBanned = users[u].isBanned]_vars

C37_Witness ==
  \E r, q \in Reqs :
    /\ Succeeded(r) /\ Succeeded(q)
    /\ reqs[r].effects = {"update"} /\ reqs[q].effects = {"update"}
    /\ reqs[r].found = {0} /\ reqs[q].found = {9}
    /\ users[0].role = "USER" /\ users[0].balance = 50 /\ users[0].isBanned
    /\ users[9].role = "ADMIN" /\ users[9].balance = 0 /\ ~users[9].isBanned
    /\ users[0].nickname = <<"N", "e", "o">>

StateChanging == {"create", "delete", "review", "bulk", "credit", "update"}

(* A request of a state-changing operation whose user was banned when the  *)
(* request was authenticated.                                              *)
BannedRequest(q) == q.kind \in StateChanging /\ q.user.isBanned

(* C38: a Create, Delete, Review, BulkReview, Credit or updateUser request *)
(* whose user was banned when it was authenticated, whatever the user's    *)
(* role, is refused at once with Forbidden, has written nothing, and its   *)
(* step leaves users, submissions, blobs, payouts and audit log unchanged. *)
C38_BannedChangesNothing ==
  /\ [](\A r \in Reqs :
          BannedRequest(reqs[r]) =>
            /\ Done(r) /\ ErrorKind(reqs[r].result) = "Forbidden"
            /\ reqs[r].effects = {}
            /\ PayoutsOf(r) = {} /\ LogsOf(r) = {})
  /\ [][\A r \in Reqs :
          (Stepping(r) /\ BannedRequest(reqs'[r])) =>
            UNCHANGED <<users, subs, blobs, payouts, adminLogs>>]_vars

C38_Witness ==
  /\ reqs[1].kind = "update" /\ reqs[1].user.id = "a" /\ Succeeded(1)
  /\ users["m"].isBanned
  /\ reqs[2].kind = "credit" /\ reqs[2].user.id = "m" /\ reqs[2].user.isBanned
  /\ reqs[2].result = "auth_required"
  /\ users["bu"].balance = 0 /\ payouts = <<>>

====
